---- MODULE Spec2Model ----
(***************************************************************************)
(* Crop-region detection engine of ffmpeg-crop-service.                    *)
(*                                                                         *)
(* The module models the content-box revision of the service               *)
(* (src/unnamed/part_004): the Content-Box Detector, the Multi-Frame       *)
(* Consensus, the External-Model Refinement Gate and the /detect-ai        *)
(* request handler that chains them, together with the /detect-ai          *)
(* handler of the single-frame revision (src/server.js), the dark-band     *)
(* and text-on-dark scans, the /detect-ai handler that enforces their      *)
(* bounds (src/unnamed/part_001), two concurrent /detect requests, the     *)
(* parsing of the external model's reply, the cropdetect-based /detect     *)
(* handler (src/unnamed/part_003) and the consensus loop on its own.       *)
(*                                                                         *)
(* Numbers.  Pixel indices, sizes and clamped results are integers.  A     *)
(* JavaScript number that reaches Math.floor is a rational <<num, den>>    *)
(* with den > 0, so that flooring is a real operation; Num(k) is the       *)
(* integer k as such a number; <<0, 0>> stands for NaN.                    *)
(***************************************************************************)
EXTENDS Integers, Sequences, FiniteSets, TLC

VARIABLES
    png,        \* detector run: the decoded frame {width, height, data}
    opts,       \* detector run: the options object passed to the detector
    dstep,      \* detector run: "input" | "detected" | "cropped"
    rowIsContent, colIsContent,   \* detector run: the two boolean arrays
    scan,       \* detector run: top/bottom/left/right before the padding
    box,        \* detector run: the returned box
    higher,     \* dark-row scan: a second darkThreshold, at least opts.darkThreshold
    walked,     \* dark-row scan: topCut / bottomCut as the two while loops leave them
    cuts,       \* dark-row scan: what detectCutsFromPng returned
    cutsHigher, \* dark-row scan: what it returned with darkThreshold = higher
    bands,      \* text-on-dark scan: what detectTextOnDarkBands returned
    crop,       \* detector run: boxToCrop(box); /detect (part_003): parseCropdetect(stderr)
    pc,         \* /detect-ai: where the handler stands
    video,      \* /detect-ai: the uploaded video (an index into Videos)
    src_w, src_h,       \* /detect-ai: what ffprobeDims returned
    detectorParams,     \* /detect-ai: the options handed to the detector
    n,          \* /detect-ai: timestamps.length
    i,          \* /detect-ai: the frame loop's index
    intersectionBox,    \* /detect-ai: the running consensus, or Null
    pickedFrameForAI,   \* /detect-ai: whether the representative frame is kept
    frameBoxes, \* /detect-ai: the boxes of the frames the loop analysed, in order
    initialCrop,        \* /detect-ai: boxToCrop(intersectionBox)
    reply,      \* /detect-ai: what the external model call produced
    refined,    \* /detect-ai: what refineWithGPT5Mini returned, or Null
    res,        \* /detect-ai: the response sent, or Null
    duration,   \* /detect-ai: what ffprobeDuration returned (a rational), or Null
    timestamps, \* /detect-ai: the timestamps to sample (rationals)
    cleanup,    \* /detect-ai: the paths whose unlink the cleanup array holds
    created,    \* /detect-ai: the temporary files that exist for the request
    scheduled,  \* /detect-ai: the paths fs.unlink was called on
    frames,     \* /detect-ai (server.js, part_001): frames.length
    firstPng,   \* /detect-ai (part_001): the first frame decoded, or Null
    enforcedTop, enforcedBottom,  \* /detect-ai (part_001): the heuristic bounds
    call,       \* /detect-ai: the external-model call in flight, or Null
    clock,      \* concurrent /detect requests: Date.now(), in milliseconds
    requests,   \* concurrent /detect requests: each request's locals
    files,      \* concurrent /detect requests: the frame PNGs in /tmp
    txt,        \* reply parser: the text of the reply, a sequence of tokens
    jsonMatch,  \* reply parser: what txt.match(/\{[\s\S]*\}/) matched, or << >>
    parsed,     \* reply parser: the outcome of the parsing stage, or Null
    stderr      \* /detect (part_003): the crop= lines ffmpeg printed

scanVars == <<higher, walked, cuts, cutsHigher, bands>>
detVars == <<png, opts, dstep, rowIsContent, colIsContent, scan, box, crop, scanVars>>
fileVars == <<cleanup, created, scheduled>>
hybridVars == <<frames, firstPng, enforcedTop, enforcedBottom>>
pairVars == <<clock, requests, files>>
textVars == <<txt, jsonMatch, parsed, stderr>>
reqVars == <<pc, video, src_w, src_h, detectorParams, n, i, intersectionBox,
             pickedFrameForAI, frameBoxes, initialCrop, reply, refined, res,
             duration, timestamps, fileVars, hybridVars, call, pairVars, textVars>>
vars == <<detVars, reqVars>>

Null == [null |-> TRUE]

-----------------------------------------------------------------------------
(* Arithmetic helpers of the JavaScript runtime.                           *)

Max2(a, b) == IF a >= b THEN a ELSE b
Min2(a, b) == IF a <= b THEN a ELSE b

Num(k) == <<k, 1>>

\* Math.floor of a finite number num/den (den > 0); \div rounds towards
\* minus infinity, as Math.floor does.
MathFloor(v) == v[1] \div v[2]

\* floor(ratio * height), ratio a rational
FloorOfRatio(ratio, height) == (ratio[1] * height) \div ratio[2]

\* function clampInt(v, min, max): Math.max(min, Math.min(max, Math.floor(v)))
clampInt(v, min, max) == Max2(min, Min2(max, MathFloor(v)))

-----------------------------------------------------------------------------
(* Frames.  png.data is the flat RGBA byte array of pngjs: the pixel       *)
(* (x, y) occupies the four bytes from (y*width + x)*4.                    *)

Black == <<0, 0, 0>>
White == <<255, 255, 255>>
Dim   == <<20, 20, 20>>
Blue  == <<0, 0, 255>>
Green == <<0, 255, 0>>

MkPng(w, h, Pix(_, _)) ==
    [width |-> w, height |-> h,
     data |-> [k \in 0..(4 * w * h - 1) |->
                 LET p == k \div 4
                     c == k % 4
                 IN  IF c = 3 THEN 255 ELSE Pix(p % w, p \div w)[c + 1]]]

-----------------------------------------------------------------------------
(* Content-Box Detector (detectContentBoxFromPng).                         *)

\* luminanceAt(idx) = 0.2126 r + 0.7152 g + 0.0722 b, here times 10000 so
\* that it stays an integer.
luminanceAt(data, idx) ==
    2126 * data[idx] + 7152 * data[idx + 1] + 722 * data[idx + 2]

\* luminanceAt(idx) >= lumThreshold, the threshold a rational num/den
NonDark(data, idx, lumThreshold) ==
    luminanceAt(data, idx) * lumThreshold[2] >= 10000 * lumThreshold[1]

\* rowIsContent[y] = (nonDark / width >= rowFrac)
RowIsContent(p, lumThreshold, rowFrac) ==
    LET content == {y \in 0..(p.height - 1) :
                      Cardinality({x \in 0..(p.width - 1) :
                          NonDark(p.data, (y * p.width + x) * 4, lumThreshold)}) * rowFrac[2]
                      >= rowFrac[1] * p.width}
    IN  [y \in 0..(p.height - 1) |-> y \in content]

\* colIsContent[x] = (nonDark / height >= colFrac)
ColIsContent(p, lumThreshold, colFrac) ==
    LET content == {x \in 0..(p.width - 1) :
                      Cardinality({y \in 0..(p.height - 1) :
                          NonDark(p.data, (y * p.width + x) * 4, lumThreshold)}) * colFrac[2]
                      >= colFrac[1] * p.height}
    IN  [x \in 0..(p.width - 1) |-> x \in content]

ArrLen(boolArr) == Cardinality(DOMAIN boolArr)

\* the least and the greatest element of a non-empty set of integers
Least(S) == CHOOSE m \in S : \A k \in S : m <= k
Greatest(S) == CHOOSE m \in S : \A k \in S : m >= k

\* streak of findStartByConsecutive once its loop body has run at index
\* "at": streak = boolArr[i] ? streak + 1 : 0 leaves the distance to the
\* nearest index at or below "at" that is not content
streakUpTo(boolArr, at) ==
    at - Greatest({-1} \cup {j \in 0..at : ~boolArr[j]})

\* streak of findEndByConsecutive once its loop body has run at index "at"
\* (the loop runs downwards from the last index)
streakDownTo(boolArr, at) ==
    Least({ArrLen(boolArr)} \cup {j \in at..(ArrLen(boolArr) - 1) : ~boolArr[j]}) - at

\* findStartByConsecutive that stops at the first content line, whatever
\* the length of the run it starts
findStartByConsecutiveFirstLine(boolArr, consecutive) ==
    LET hits == {at \in DOMAIN boolArr : boolArr[at]}
    IN  IF hits = {} THEN 0 ELSE Least(hits)

\* for (i = 0; i < length; i++): return i - consecutive + 1 at the first i
\* where streak >= consecutive; return 0 when the loop ends
findStartByConsecutive(boolArr, consecutive) ==
    LET hits == {at \in DOMAIN boolArr : streakUpTo(boolArr, at) >= consecutive}
    IN  IF hits = {} THEN 0 ELSE Least(hits) - consecutive + 1

\* for (i = length - 1; i >= 0; i--): return i + consecutive - 1 at the
\* first i where streak >= consecutive; return length - 1 when the loop ends
findEndByConsecutive(boolArr, consecutive) ==
    LET hits == {at \in DOMAIN boolArr : streakDownTo(boolArr, at) >= consecutive}
    IN  IF hits = {} THEN ArrLen(boolArr) - 1 ELSE Greatest(hits) + consecutive - 1

\* const consecutive = clampInt(Number(opts.consecutive ?? 6), 2, 30)
Consecutive(o) == clampInt(o.consecutive, 2, 30)

\* const pad = clampInt(Number(opts.safe_margin ?? 8), 0, 200)
Pad(o) == clampInt(o.safe_margin, 0, 200)

\* top / bottom / left / right as the two scans leave them (before padding)
ScanBounds(rows, cols, consecutive) ==
    [top    |-> findStartByConsecutive(rows, consecutive),
     bottom |-> findEndByConsecutive(rows, consecutive),
     left   |-> findStartByConsecutive(cols, consecutive),
     right  |-> findEndByConsecutive(cols, consecutive)]

\* the padding without "Ensure sane minimum"
PadAndFloorNoMinimum(sc, width, height, o) ==
    LET pad == Pad(o)
    IN  [left   |-> clampInt(Num(sc.left + pad), 0, width - 2),
         top    |-> clampInt(Num(sc.top + pad), 0, height - 2),
         right  |-> clampInt(Num(sc.right - pad), 1, width - 1),
         bottom |-> clampInt(Num(sc.bottom - pad), 1, height - 1),
         width  |-> width,
         height |-> height,
         params_used |-> [lumThreshold |-> o.lum_threshold, rowFrac |-> o.row_frac,
                          colFrac |-> o.col_frac, consecutive |-> Consecutive(o),
                          pad |-> pad, minW |-> clampInt(o.min_w, 50, width),
                          minH |-> clampInt(o.min_h, 50, height)]]

\* "Apply inner padding" and "Ensure sane minimum", on the scanned bounds
PadAndFloor(sc, width, height, o) ==
    LET pad    == Pad(o)
        top    == clampInt(Num(sc.top + pad), 0, height - 2)
        bottom == clampInt(Num(sc.bottom - pad), 1, height - 1)
        left   == clampInt(Num(sc.left + pad), 0, width - 2)
        right  == clampInt(Num(sc.right - pad), 1, width - 1)
        minW   == clampInt(o.min_w, 50, width)
        minH   == clampInt(o.min_h, 50, height)
        narrow == right - left + 1 < minW
        short  == bottom - top + 1 < minH
    IN  [left   |-> IF narrow THEN 0 ELSE left,
         top    |-> IF short THEN 0 ELSE top,
         right  |-> IF narrow THEN width - 1 ELSE right,
         bottom |-> IF short THEN height - 1 ELSE bottom,
         width  |-> width,
         height |-> height,
         params_used |-> [lumThreshold |-> o.lum_threshold, rowFrac |-> o.row_frac,
                          colFrac |-> o.col_frac, consecutive |-> Consecutive(o),
                          pad |-> pad, minW |-> minW, minH |-> minH]]

detectContentBoxFromPng(p, o) ==
    LET rows == RowIsContent(p, o.lum_threshold, o.row_frac)
        cols == ColIsContent(p, o.lum_threshold, o.col_frac)
    IN  PadAndFloor(ScanBounds(rows, cols, Consecutive(o)), p.width, p.height, o)

\* function boxToCrop(box)
boxToCrop(b) ==
    LET x == clampInt(Num(b.left), 0, b.width - 2)
        y == clampInt(Num(b.top), 0, b.height - 2)
    IN  [x |-> x, y |-> y,
         crop_w |-> clampInt(Num(b.right - b.left + 1), 10, b.width - x),
         crop_h |-> clampInt(Num(b.bottom - b.top + 1), 10, b.height - y)]

-----------------------------------------------------------------------------
(* Inputs: frames and detector options.                                    *)

MaxTinyW == 2
MaxTinyH == 5
FrameW == 12
FrameH == 100

\* Small frames, every pattern of lit rows and lit columns: the pixel
\* (x, y) is white when row y and column x are both lit, black otherwise.
TinyFrames ==
    UNION {UNION {{MkPng(w, h, LAMBDA x, y : IF y \in R /\ x \in C THEN White ELSE Black) :
                      R \in SUBSET (0..(h - 1)), C \in SUBSET (0..(w - 1))} :
                  h \in 1..MaxTinyH} :
           w \in 1..MaxTinyW}

\* Shapes of a long axis of length len: lit is the set of lit lines, text the
\* lines that carry one bright pixel only (a caption on a dark strip), fg and
\* bg the colours of lit and unlit pixels.
ShapeFull(len)   == [lit |-> 0..(len - 1), text |-> {}, fg |-> White, bg |-> Black]
ShapeHeader(len) == [lit |-> 10..(len - 11), text |-> 0..9, fg |-> White, bg |-> Black]
ShapeFirst(len)  == [lit |-> 0..54, text |-> {}, fg |-> White, bg |-> Black]
ShapeLast(len)   == [lit |-> 45..(len - 1), text |-> {}, fg |-> White, bg |-> Dim]
ShapeNoise(len)  == [lit |-> (2..4) \cup (10..(len - 11)) \cup ((len - 5)..(len - 3)),
                     text |-> {}, fg |-> White, bg |-> Black]
ShapeText(len)   == [lit |-> {}, text |-> 0..(len - 1), fg |-> White, bg |-> Black]
ShapeGreen(len)  == [lit |-> 20..79, text |-> (len - 8)..(len - 1), fg |-> Green, bg |-> Dim]
ShapeLate(len)   == [lit |-> 30..(len - 1), text |-> {}, fg |-> White, bg |-> Blue]

Shapes(len) ==
    {ShapeFull(len), ShapeHeader(len), ShapeFirst(len), ShapeLast(len), ShapeNoise(len),
     ShapeText(len), ShapeGreen(len), ShapeLate(len)}

ShapePixel(s, line, across) ==
    IF line \in s.lit THEN s.fg
    ELSE IF line \in s.text /\ across = 0 THEN White
    ELSE s.bg

\* A tall frame (FrameW x FrameH) whose rows follow the shape, and the same
\* turned by a quarter: a wide frame (FrameH x FrameW) whose columns do.
TallFrame(s) == MkPng(FrameW, FrameH, LAMBDA x, y : ShapePixel(s, y, x))
WideFrame(s) == MkPng(FrameH, FrameW, LAMBDA x, y : ShapePixel(s, x, y))

TallFrames == {TallFrame(s) : s \in Shapes(FrameH)}
WideFrames == {WideFrame(s) : s \in Shapes(FrameH)}

\* The options object of the /detect-ai handler: every field is present
\* (req.body.<field> ?? default) and, here, a finite number.
DefaultOpts ==
    [lum_threshold |-> Num(26), row_frac |-> <<12, 100>>, col_frac |-> <<10, 100>>,
     consecutive |-> Num(6), safe_margin |-> Num(8), min_w |-> Num(200), min_h |-> Num(200)]

OptsSet ==
    {DefaultOpts,
     [DefaultOpts EXCEPT !.consecutive = Num(2), !.safe_margin = Num(0),
                         !.min_w = Num(50), !.min_h = Num(50)],
     [DefaultOpts EXCEPT !.consecutive = <<5, 2>>, !.safe_margin = <<1, 2>>,
                         !.min_w = Num(10), !.min_h = <<121, 2>>],
     [DefaultOpts EXCEPT !.lum_threshold = Num(200), !.consecutive = Num(31),
                         !.safe_margin = Num(300), !.min_w = Num(500), !.min_h = Num(1)],
     [DefaultOpts EXCEPT !.consecutive = Num(1), !.row_frac = <<1, 2>>,
                         !.min_w = Num(3), !.min_h = Num(50)]}

\* No request is being handled.
IdleRequest ==
    /\ pc = "idle" /\ video = 0 /\ src_w = 0 /\ src_h = 0 /\ detectorParams = Null
    /\ n = 0 /\ i = 0 /\ intersectionBox = Null /\ pickedFrameForAI = FALSE
    /\ frameBoxes = << >> /\ initialCrop = Null /\ reply = Null /\ refined = Null
    /\ res = Null
    /\ duration = Null /\ timestamps = << >>
    /\ cleanup = {} /\ created = {} /\ scheduled = {}
    /\ frames = 0 /\ firstPng = Null /\ enforcedTop = 0 /\ enforcedBottom = 0
    /\ call = Null
    /\ clock = 0 /\ requests = << >> /\ files = << >>
    /\ txt = << >> /\ jsonMatch = << >> /\ parsed = Null /\ stderr = << >>

\* No dark-row or text-on-dark scan is under way.
IdleScans ==
    /\ higher = Null /\ walked = Null /\ cuts = Null /\ cutsHigher = Null
    /\ bands = Null

\* No detector run is under way.
IdleDetector ==
    /\ png = Null /\ opts = Null /\ dstep = "idle"
    /\ rowIsContent = Null /\ colIsContent = Null
    /\ scan = Null /\ box = Null /\ crop = Null
    /\ IdleScans

-----------------------------------------------------------------------------
(* The detector run on one frame: SpecDetect.                              *)

InitDetect ==
    /\ png \in TinyFrames \cup TallFrames \cup WideFrames
    /\ opts \in OptsSet
    /\ dstep = "input"
    /\ rowIsContent = Null /\ colIsContent = Null
    /\ scan = Null /\ box = Null /\ crop = Null
    /\ IdleScans
    /\ IdleRequest

\* detectContentBoxFromPng(png, detectorParams)
Detect ==
    /\ dstep = "input"
    /\ rowIsContent' = RowIsContent(png, opts.lum_threshold, opts.row_frac)
    /\ colIsContent' = ColIsContent(png, opts.lum_threshold, opts.col_frac)
    /\ scan' = ScanBounds(rowIsContent', colIsContent', Consecutive(opts))
    /\ box' = detectContentBoxFromPng(png, opts)
    /\ dstep' = "detected"
    /\ UNCHANGED <<png, opts, crop>>
    /\ UNCHANGED scanVars
    /\ UNCHANGED reqVars

\* boxToCrop(box)
ToCrop ==
    /\ dstep = "detected"
    /\ crop' = boxToCrop(box)
    /\ dstep' = "cropped"
    /\ UNCHANGED <<png, opts, rowIsContent, colIsContent, scan, box>>
    /\ UNCHANGED scanVars
    /\ UNCHANGED reqVars

NextDetect == Detect \/ ToCrop

SpecDetect == InitDetect /\ [][NextDetect]_vars

-----------------------------------------------------------------------------
(* Dark-row scan (detectCutsFromPng; the same text in server.js, part_001  *)
(* and part_004): SpecCuts.                                                *)

\* sum over x in lo..hi of the luminance (times 10000) of pixel (x, y)
RECURSIVE LuminanceSum(_, _, _, _)
LuminanceSum(p, y, lo, hi) ==
    IF lo > hi THEN 0
    ELSE IF lo = hi THEN luminanceAt(p.data, (y * p.width + lo) * 4)
    ELSE LET mid == (lo + hi) \div 2
         IN  LuminanceSum(p, y, lo, mid) + LuminanceSum(p, y, mid + 1, hi)

\* rowMean[y] > darkThreshold: the comparison of the scan turned round
RowIsBright(p, y, d) ==
    /\ y \in 0..(p.height - 1)
    /\ LuminanceSum(p, y, 0, p.width - 1) * d[2] > d[1] * 10000 * p.width

\* rowMean[y] < darkThreshold, rowMean[y] = sum / width; rowMean[y] is
\* undefined for y outside the frame, and the comparison then false
RowIsDark(p, y, d) ==
    /\ y \in 0..(p.height - 1)
    /\ LuminanceSum(p, y, 0, p.width - 1) * d[2] < d[1] * 10000 * p.width

\* const minBand = Math.floor(height * minBandRatio)
MinBand(p, o) == MathFloor(<<p.height * o.minBandRatio[1], o.minBandRatio[2]>>)

\* const maxBand = Math.floor(height * maxBandRatio)
MaxBand(p, o) == MathFloor(<<p.height * o.maxBandRatio[1], o.maxBandRatio[2]>>)

\* the walk from row 0 that stops only at a row that is not dark
TopWalkUnbounded(p, d, maxBand) ==
    Least({k \in 0..p.height : ~RowIsDark(p, k, d)})

\* let topCut = 0; while (topCut < maxBand && rowMean[topCut] < darkThreshold)
\* topCut++: the first count at which the loop condition fails
TopWalk(p, d, maxBand) ==
    IF maxBand <= 0 THEN 0
    ELSE Least({k \in 0..maxBand : k = maxBand \/ ~RowIsDark(p, k, d)})

\* let bottomCut = 0; while (bottomCut < maxBand &&
\* rowMean[height - 1 - bottomCut] < darkThreshold) bottomCut++
BottomWalk(p, d, maxBand) ==
    IF maxBand <= 0 THEN 0
    ELSE Least({k \in 0..maxBand : k = maxBand \/ ~RowIsDark(p, p.height - 1 - k, d)})

\* topCut and bottomCut when the two loops have ended
WalkedCuts(p, o) ==
    [topCut    |-> TopWalk(p, o.darkThreshold, MaxBand(p, o)),
     bottomCut |-> BottomWalk(p, o.darkThreshold, MaxBand(p, o))]

\* the discard step that lets every cut through
DiscardNothing(cut, minBand) == cut

\* if (topCut < minBand) topCut = 0
DiscardShort(cut, minBand) == IF cut < minBand THEN 0 ELSE cut

\* function detectCutsFromPng(png, opts)
detectCutsFromPng(p, o) ==
    LET w == WalkedCuts(p, o)
    IN  [topCut    |-> DiscardShort(w.topCut, MinBand(p, o)),
         bottomCut |-> DiscardShort(w.bottomCut, MinBand(p, o)),
         width |-> p.width, height |-> p.height]

MaxCutH == 5
CutW == 2

\* Rows of a small frame: all black (mean 0), all dim (mean 20), half black
\* and half white (mean 127.5)
RowKinds == {"black", "dim", "half"}

RowPixel(kind, x) ==
    CASE kind = "black" -> Black
      [] kind = "dim" -> Dim
      [] kind = "half" -> IF x % 2 = 0 THEN Black ELSE White
      [] kind = "text" -> IF x = 0 THEN White ELSE Black
      [] kind = "bright" -> White

\* Small frames for the dark-row scan, every sequence of row kinds
CutFrames ==
    UNION {{MkPng(CutW, h, LAMBDA x, y : RowPixel(rows[y + 1], x)) :
               rows \in [1..h -> RowKinds]} : h \in 1..MaxCutH}

DarkThresholds == {Num(10), Num(35), Num(200)}

\* opts of detectCutsFromPng (35, 0.03 and 0.35 are the defaults)
CutOpts ==
    [darkThreshold : DarkThresholds,
     minBandRatio : {<<3, 100>>, <<2, 5>>},
     maxBandRatio : {<<35, 100>>, <<3, 5>>, <<3, 2>>}]

InitCuts ==
    /\ png \in CutFrames
    /\ opts \in CutOpts
    /\ higher \in {d \in DarkThresholds : d[1] >= opts.darkThreshold[1]}
    /\ dstep = "input"
    /\ rowIsContent = Null /\ colIsContent = Null
    /\ scan = Null /\ box = Null /\ crop = Null
    /\ walked = Null /\ cuts = Null /\ cutsHigher = Null /\ bands = Null
    /\ IdleRequest

\* detectCutsFromPng(png, opts)
DetectCuts ==
    /\ dstep = "input"
    /\ walked' = WalkedCuts(png, opts)
    /\ cuts' = detectCutsFromPng(png, opts)
    /\ dstep' = "cut"
    /\ UNCHANGED <<png, opts, higher, cutsHigher, bands>>
    /\ UNCHANGED <<rowIsContent, colIsContent, scan, box, crop>>
    /\ UNCHANGED reqVars

\* detectCutsFromPng(png, {...opts, darkThreshold: higher})
DetectCutsHigher ==
    /\ dstep = "cut"
    /\ cutsHigher' = detectCutsFromPng(png, [opts EXCEPT !.darkThreshold = higher])
    /\ dstep' = "cutAgain"
    /\ UNCHANGED <<png, opts, higher, walked, cuts, bands>>
    /\ UNCHANGED <<rowIsContent, colIsContent, scan, box, crop>>
    /\ UNCHANGED reqVars

NextCuts == DetectCuts \/ DetectCutsHigher

SpecCuts == InitCuts /\ [][NextCuts]_vars

-----------------------------------------------------------------------------
(* Text-on-dark scan (detectTextOnDarkBands, part_001): SpecBands.         *)

\* An option that is absent from opts (undefined)
Absent == << >>

\* opts.x ?? dflt
OrDefault(v, dflt) == IF v = Absent THEN dflt ELSE v

\* const minBandPx = Number(opts.minBandPx ?? Math.floor(height * 0.015))
MinBandPx(p, o) == OrDefault(o.minBandPx, Num(FloorOfRatio(<<15, 1000>>, p.height)))

\* const maxTopPx = Number(opts.maxTopPx ?? Math.floor(height * 0.45))
MaxTopPx(p, o) == OrDefault(o.maxTopPx, Num(FloorOfRatio(<<45, 100>>, p.height)))

\* const maxBottomPx = Number(opts.maxBottomPx ?? Math.floor(height * 0.30))
MaxBottomPx(p, o) == OrDefault(o.maxBottomPx, Num(FloorOfRatio(<<30, 100>>, p.height)))

\* const topScanH = Math.floor(height * scanTopRatio)
TopScanH(p, o) == FloorOfRatio(o.scanTopRatio, p.height)

\* const botScanH = Math.floor(height * scanBottomRatio)
BotScanH(p, o) == FloorOfRatio(o.scanBottomRatio, p.height)

\* rowStats(y): darkCount and whiteCount; outside the frame the luminance is
\* NaN and both stay 0
RowStats(p, o, y) ==
    LET xs == IF y \in 0..(p.height - 1) THEN 0..(p.width - 1) ELSE {}
        lum(x) == luminanceAt(p.data, (y * p.width + x) * 4)
    IN  [darkCount  |-> Cardinality({x \in xs : lum(x) * o.darkLum[2] <= 10000 * o.darkLum[1]}),
         whiteCount |-> Cardinality({x \in xs : lum(x) * o.whiteLum[2] >= 10000 * o.whiteLum[1]})]

\* const ok = darkRatio >= minDarkRatio && whiteRatio >= minWhiteRatio
RowOk(p, o, y) ==
    LET st == RowStats(p, o, y)
    IN  /\ st.darkCount * o.minDarkRatio[2] >= o.minDarkRatio[1] * p.width
        /\ st.whiteCount * o.minWhiteRatio[2] >= o.minWhiteRatio[1] * p.width

\* run >= minBandPx, minBandPx a rational
RunReaches(run, minBandPx) == run * minBandPx[2] >= minBandPx[1]

\* the top loop that stops at the first row that does not qualify
RECURSIVE TopScanFromEdgeOnly(_, _, _, _, _)
TopScanFromEdgeOnly(p, o, y, run, lastGood) ==
    IF y >= TopScanH(p, o) \/ y * MaxTopPx(p, o)[2] > MaxTopPx(p, o)[1]
    THEN [run |-> run, lastGood |-> lastGood]
    ELSE IF RowOk(p, o, y)
    THEN TopScanFromEdgeOnly(p, o, y + 1, run + 1, y)
    ELSE [run |-> run, lastGood |-> lastGood]

\* for (let y = 0; y < topScanH; y++) {...}: run and lastGood when the loop
\* is left, entered at row y
RECURSIVE TopScan(_, _, _, _, _)
TopScan(p, o, y, run, lastGood) ==
    IF y >= TopScanH(p, o) \/ y * MaxTopPx(p, o)[2] > MaxTopPx(p, o)[1]
    THEN [run |-> run, lastGood |-> lastGood]
    ELSE IF RowOk(p, o, y)
    THEN TopScan(p, o, y + 1, run + 1, y)
    ELSE IF RunReaches(run, MinBandPx(p, o))
    THEN [run |-> run, lastGood |-> lastGood]
    ELSE TopScan(p, o, y + 1, 0, -1)

\* for (let i = 0; i < botScanH; i++) {...}, y = height - 1 - i
RECURSIVE BottomScan(_, _, _, _, _)
BottomScan(p, o, k, run, lastGood) ==
    IF k >= BotScanH(p, o) \/ k * MaxBottomPx(p, o)[2] > MaxBottomPx(p, o)[1]
    THEN [run |-> run, lastGood |-> lastGood]
    ELSE IF RowOk(p, o, p.height - 1 - k)
    THEN BottomScan(p, o, k + 1, run + 1, p.height - 1 - k)
    ELSE IF RunReaches(run, MinBandPx(p, o))
    THEN [run |-> run, lastGood |-> lastGood]
    ELSE BottomScan(p, o, k + 1, 0, -1)

\* function detectTextOnDarkBands(png, opts)
detectTextOnDarkBands(p, o) ==
    LET t == TopScan(p, o, 0, 0, -1)
        b == BottomScan(p, o, 0, 0, -1)
    IN  [top_overlay_end |->
             IF RunReaches(t.run, MinBandPx(p, o)) /\ t.lastGood >= 0
             THEN t.lastGood + 1 ELSE 0,
         bottom_overlay_start |->
             IF RunReaches(b.run, MinBandPx(p, o)) /\ b.lastGood >= 0
             THEN b.lastGood ELSE p.height]

MaxBandH == 6
BandW == 3

\* Rows of a small frame: a caption row (one white pixel, the rest black),
\* an all-black row, an all-white row
BandRowKinds == {"text", "black", "bright"}

BandFrames ==
    UNION {{MkPng(BandW, h, LAMBDA x, y : RowPixel(rows[y + 1], x)) :
               rows \in [1..h -> BandRowKinds]} : h \in 1..MaxBandH}

\* opts of detectTextOnDarkBands with every option absent but the scan ratios
BandOptsOf(top, bottom) ==
    [scanTopRatio |-> top, scanBottomRatio |-> bottom,
     darkLum |-> Num(40), whiteLum |-> Num(235),
     minDarkRatio |-> <<55, 100>>, minWhiteRatio |-> <<3, 1000>>,
     minBandPx |-> Absent, maxTopPx |-> Absent, maxBottomPx |-> Absent]

BandOpts ==
    LET ratios == {BandOptsOf(<<40, 100>>, <<30, 100>>), BandOptsOf(<<1, 2>>, <<1, 2>>),
                   BandOptsOf(Num(1), Num(1))}
    IN  {[o EXCEPT !.minBandPx = m] : o \in ratios, m \in {Absent, Num(1), Num(2), <<5, 2>>}}
        \cup {[BandOptsOf(Num(1), Num(1)) EXCEPT !.minBandPx = Num(2),
                  !.maxTopPx = Num(9), !.maxBottomPx = Num(0)]}

InitBands ==
    /\ png \in BandFrames
    /\ opts \in BandOpts
    /\ dstep = "input"
    /\ rowIsContent = Null /\ colIsContent = Null
    /\ scan = Null /\ box = Null /\ crop = Null
    /\ IdleScans
    /\ IdleRequest

\* detectTextOnDarkBands(png, opts)
DetectBands ==
    /\ dstep = "input"
    /\ bands' = detectTextOnDarkBands(png, opts)
    /\ dstep' = "banded"
    /\ UNCHANGED <<png, opts, higher, walked, cuts, cutsHigher>>
    /\ UNCHANGED <<rowIsContent, colIsContent, scan, box, crop>>
    /\ UNCHANGED reqVars

NextBands == DetectBands

SpecBands == InitBands /\ [][NextBands]_vars

-----------------------------------------------------------------------------
(* Multi-Frame Consensus and External-Model Refinement Gate.               *)

\* intersectBoxes that forgets to take the smaller right edge
intersectBoxesKeepRight(a, b) ==
    LET left   == Max2(a.left, b.left)
        top    == Max2(a.top, b.top)
        right  == Min2(a.right, b.right)
        bottom == Min2(a.bottom, b.bottom)
    IN  IF right <= left + 10 \/ bottom <= top + 10 THEN a
        ELSE [a EXCEPT !.left = left, !.top = top, !.bottom = bottom]

\* intersectBoxes that falls back to the new frame's box, not the accumulated one
intersectBoxesFallbackToB(a, b) ==
    LET left   == Max2(a.left, b.left)
        top    == Max2(a.top, b.top)
        right  == Min2(a.right, b.right)
        bottom == Min2(a.bottom, b.bottom)
    IN  IF right <= left + 10 \/ bottom <= top + 10 THEN b
        ELSE [a EXCEPT !.left = left, !.top = top, !.right = right, !.bottom = bottom]

\* intersectBoxes without the collapse test
intersectBoxesNoFallback(a, b) ==
    [a EXCEPT !.left = Max2(a.left, b.left), !.top = Max2(a.top, b.top),
              !.right = Min2(a.right, b.right), !.bottom = Min2(a.bottom, b.bottom)]

\* function intersectBoxes(a, b)
intersectBoxes(a, b) ==
    LET left   == Max2(a.left, b.left)
        top    == Max2(a.top, b.top)
        right  == Min2(a.right, b.right)
        bottom == Min2(a.bottom, b.bottom)
    IN  IF right <= left + 10 \/ bottom <= top + 10 THEN a
        ELSE [a EXCEPT !.left = left, !.top = top, !.right = right, !.bottom = bottom]

\* refineWithGPT5Mini that bounds the size by the safe region's size alone,
\* not by what is left of it from crop_x / crop_y on
refineWithGPT5MiniSizeOnly(ic, j) ==
    LET minX == ic.x
        minY == ic.y
        maxX == ic.x + ic.crop_w
        maxY == ic.y + ic.crop_h
    IN  [crop_x |-> clampInt(j.crop_x, minX, maxX - 10),
         crop_y |-> clampInt(j.crop_y, minY, maxY - 10),
         crop_w |-> clampInt(j.crop_w, 10, ic.crop_w),
         crop_h |-> clampInt(j.crop_h, 10, ic.crop_h)]

\* refineWithGPT5Mini from "Clamp to initial crop bounds strictly" on: ic is
\* initialCrop and j the object JSON.parse returned (nudge is the constant 0)
refineWithGPT5Mini(ic, j) ==
    LET minX == ic.x
        minY == ic.y
        maxX == ic.x + ic.crop_w
        maxY == ic.y + ic.crop_h
        x1 == clampInt(j.crop_x, minX, maxX - 10)
        y1 == clampInt(j.crop_y, minY, maxY - 10)
        w1 == clampInt(j.crop_w, 10, maxX - x1)
        h1 == clampInt(j.crop_h, 10, maxY - y1)
        nudge == 0
        x2 == clampInt(Num(x1 + nudge), minX, maxX - 10)
        y2 == clampInt(Num(y1 + nudge), minY, maxY - 10)
    IN  [crop_x |-> x2, crop_y |-> y2,
         crop_w |-> clampInt(Num(w1 - 2 * nudge), 10, maxX - x2),
         crop_h |-> clampInt(Num(h1 - 2 * nudge), 10, maxY - y2)]

\* What the call of the external model and the parsing of its reply can
\* produce: the call rejects; the text holds no {...} block; the block is
\* not valid JSON; or an object j with numeric crop_x, crop_y, crop_w, crop_h.
ModelPositions == {Num(-50), <<51, 2>>, Num(5000)}
ModelSizes == {Num(1), <<61, 2>>, Num(99999)}

ModelObjects ==
    [crop_x : ModelPositions, crop_y : ModelPositions,
     crop_w : ModelSizes, crop_h : ModelSizes]

FailedReplies == {[kind |-> "rejected"], [kind |-> "noJson"], [kind |-> "badJson"]}

\* Number(x), Math.floor(x) of what is no number (a text, undefined)
NaN == <<0, 0>>

IsNaN(q) == q[2] = 0

\* Objects the reply can parse to with crop_x, crop_y, crop_w or crop_h
\* missing or not numeric: one of the four, or all of them
OddObjects ==
    LET sound == [crop_x |-> <<51, 2>>, crop_y |-> <<51, 2>>,
                  crop_w |-> <<61, 2>>, crop_h |-> <<61, 2>>]
    IN  {[sound EXCEPT ![f] = NaN] : f \in DOMAIN sound}
        \cup {[f \in DOMAIN sound |-> NaN]}

OddReplies == {[kind |-> "oddJson", j |-> j] : j \in OddObjects}

\* Math.floor, Math.min, Math.max, - and + on JavaScript numbers, NaN among
\* them: NaN when an operand is NaN
JsFloor(v) == IF IsNaN(v) THEN NaN ELSE Num(MathFloor(v))

JsMin(a, b) ==
    IF IsNaN(a) \/ IsNaN(b) THEN NaN
    ELSE IF a[1] * b[2] <= b[1] * a[2] THEN a ELSE b

JsMax(a, b) ==
    IF IsNaN(a) \/ IsNaN(b) THEN NaN
    ELSE IF a[1] * b[2] <= b[1] * a[2] THEN b ELSE a

JsSub(a, b) ==
    IF IsNaN(a) \/ IsNaN(b) THEN NaN
    ELSE <<a[1] * b[2] - b[1] * a[2], a[2] * b[2]>>

\* function clampInt(v, min, max) on JavaScript numbers
clampIntJs(v, min, max) == JsMax(min, JsMin(max, JsFloor(v)))

\* refineWithGPT5Mini on an object whose fields need not be numbers: as
\* above, on JavaScript numbers (nudge is the constant 0)
refineWithGPT5MiniJs(ic, j) ==
    LET minX == Num(ic.x)
        minY == Num(ic.y)
        maxX == Num(ic.x + ic.crop_w)
        maxY == Num(ic.y + ic.crop_h)
        x1 == clampIntJs(j.crop_x, minX, JsSub(maxX, Num(10)))
        y1 == clampIntJs(j.crop_y, minY, JsSub(maxY, Num(10)))
        w1 == clampIntJs(j.crop_w, Num(10), JsSub(maxX, x1))
        h1 == clampIntJs(j.crop_h, Num(10), JsSub(maxY, y1))
        x2 == clampIntJs(x1, minX, JsSub(maxX, Num(10)))
        y2 == clampIntJs(y1, minY, JsSub(maxY, Num(10)))
    IN  [crop_x |-> x2, crop_y |-> y2,
         crop_w |-> clampIntJs(w1, Num(10), JsSub(maxX, x2)),
         crop_h |-> clampIntJs(h1, Num(10), JsSub(maxY, y2))]

Replies == FailedReplies \cup {[kind |-> "json", j |-> j] : j \in ModelObjects}

\* let final = {...initialCrop, refined_by_ai: false}
FinalOfCrop(ic) ==
    [x |-> ic.x, y |-> ic.y, crop_w |-> ic.crop_w, crop_h |-> ic.crop_h,
     refined_by_ai |-> FALSE]

\* final = {...} of the try block, from what refineWithGPT5Mini returned
FinalOfRefined(r, w, h) ==
    [x |-> clampInt(Num(r.crop_x), 0, w - 10),
     y |-> clampInt(Num(r.crop_y), 0, h - 10),
     crop_w |-> clampInt(Num(r.crop_w), 10, w - clampInt(Num(r.crop_x), 0, w - 10)),
     crop_h |-> clampInt(Num(r.crop_h), 10, h - clampInt(Num(r.crop_y), 0, h - 10)),
     refined_by_ai |-> TRUE]

\* final = {...} of the try block on JavaScript numbers
FinalOfRefinedJs(r, w, h) ==
    [x |-> clampIntJs(r.crop_x, Num(0), Num(w - 10)),
     y |-> clampIntJs(r.crop_y, Num(0), Num(h - 10)),
     crop_w |-> clampIntJs(r.crop_w, Num(10),
                           JsSub(Num(w), clampIntJs(r.crop_x, Num(0), Num(w - 10)))),
     crop_h |-> clampIntJs(r.crop_h, Num(10),
                           JsSub(Num(h), clampIntJs(r.crop_y, Num(0), Num(h - 10)))),
     refined_by_ai |-> TRUE]

\* the final rectangle when the catch block leaves a half-built result behind
FinalAfterRefineNoFallback(ic, r, w, h) ==
    IF r.kind = "json"
    THEN FinalOfRefined(refineWithGPT5Mini(ic, r.j), w, h)
    ELSE IF r.kind = "oddJson"
    THEN FinalOfRefinedJs(refineWithGPT5MiniJs(ic, r.j), w, h)
    ELSE [x |-> 0, y |-> 0, crop_w |-> w, crop_h |-> h, refined_by_ai |-> TRUE]

\* if (canRefine) { try { refined = await refineWithGPT5Mini(..); final = ..}
\* catch (e) { console.error(..) } }: the final rectangle for a reply
FinalAfterRefine(ic, r, w, h) ==
    IF r.kind = "json"
    THEN FinalOfRefined(refineWithGPT5Mini(ic, r.j), w, h)
    ELSE IF r.kind = "oddJson"
    THEN FinalOfRefinedJs(refineWithGPT5MiniJs(ic, r.j), w, h)
    ELSE FinalOfCrop(ic)

\* res.json({...}) of the happy path
OkResponse(f, w, h, analyzed) ==
    [status |-> 200, x |-> f.x, y |-> f.y, crop_w |-> f.crop_w, crop_h |-> f.crop_h,
     src_w |-> w, src_h |-> h, refined_by_ai |-> f.refined_by_ai,
     frames_analyzed |-> analyzed]

ErrorResponse(code, msg) == [status |-> code, error |-> msg]

-----------------------------------------------------------------------------
(* Videos.  A video is the frame the extractor yields at each of the (at   *)
(* most nine) sampled timestamps; all its frames have the video's size.    *)

Videos ==
    LET H == FrameH
        a == <<ShapeHeader(H), ShapeFirst(H), ShapeLast(H), ShapeFull(H), ShapeNoise(H),
               ShapeGreen(H), ShapeLate(H), ShapeText(H), ShapeHeader(H)>>
        b == <<ShapeFirst(H), ShapeLast(H), ShapeFull(H), ShapeGreen(H), ShapeFirst(H),
               ShapeLate(H), ShapeLast(H), ShapeHeader(H), ShapeFull(H)>>
        c == <<ShapeFull(H), ShapeNoise(H), ShapeHeader(H), ShapeGreen(H), ShapeFull(H),
               ShapeHeader(H), ShapeNoise(H), ShapeLate(H), ShapeGreen(H)>>
        d == <<ShapeText(H), ShapeText(H), ShapeLate(H), ShapeLast(H), ShapeText(H),
               ShapeFirst(H), ShapeText(H), ShapeText(H), ShapeGreen(H)>>
    IN  <<[wide |-> FALSE, shapes |-> a, probed |-> Num(60)],
          [wide |-> TRUE,  shapes |-> a, probed |-> <<1, 10>>],
          [wide |-> FALSE, shapes |-> b, probed |-> <<3, 2>>],
          [wide |-> TRUE,  shapes |-> b, probed |-> Num(3600)],
          [wide |-> FALSE, shapes |-> c, probed |-> Num(0)],
          [wide |-> TRUE,  shapes |-> c, probed |-> Num(1)],
          [wide |-> FALSE, shapes |-> d, probed |-> Absent],
          [wide |-> TRUE,  shapes |-> d, probed |-> <<1, 5>>]>>

VideoWidth(v)  == IF Videos[v].wide THEN FrameH ELSE FrameW
VideoHeight(v) == IF Videos[v].wide THEN FrameW ELSE FrameH

\* The frames a video can hold: a shape, turned (wide) or not
FrameKinds == {<<wide, s>> : wide \in BOOLEAN, s \in Shapes(FrameH)}

\* detectContentBoxFromPng(png, detectorParams) tabulated: the triples
\* <<frame, options, box>> for every frame a video can hold and every
\* options object
BoxTable ==
    {<<f, o, detectContentBoxFromPng(IF f[1] THEN WideFrame(f[2]) ELSE TallFrame(f[2]), o)>> :
        f \in FrameKinds, o \in OptsSet}

\* detectContentBoxFromPng(png, o) for the frame of video v at the k-th
\* timestamp (k from 0)
FrameBox(v, k, o) ==
    LET f == <<Videos[v].wide, Videos[v].shapes[k + 1]>>
    IN  (CHOOSE t \in BoxTable : t[1] = f /\ t[2] = o)[3]

\* Rational arithmetic on <<numerator, denominator>>, denominator positive
RECURSIVE Gcd(_, _)
Gcd(a, b) == IF b = 0 THEN a ELSE Gcd(b, a % b)

Abs(a) == IF a < 0 THEN -a ELSE a

Reduced(q) ==
    LET g == Gcd(Abs(q[1]), q[2])
    IN  <<q[1] \div g, q[2] \div g>>

RatAdd(p, q) == Reduced(<<p[1] * q[2] + q[1] * p[2], p[2] * q[2]>>)
RatMul(p, q) == Reduced(<<p[1] * q[1], p[2] * q[2]>>)
RatLeq(p, q) == p[1] * q[2] <= q[1] * p[2]
RatMin(p, q) == IF RatLeq(p, q) THEN p ELSE q
RatMax(p, q) == IF RatLeq(p, q) THEN q ELSE p

\* ffprobeDuration: Number(parsed?.format?.duration) of what ffprobe
\* printed (Absent: no number), or 10 when that is not finite and positive
ffprobeDuration(d) == IF d # Absent /\ d[1] > 0 THEN d ELSE Num(10)

\* Math.min(duration * 0.9, Math.max(0.2, t)) without the upper cap
TimestampUncapped(d, t) == RatMax(<<1, 5>>, t)

\* timestamps.push(Math.min(duration * 0.9, Math.max(0.2, t)))
Timestamp(d, t) == RatMin(RatMul(d, <<9, 10>>), RatMax(<<1, 5>>, t))

\* for (let i = 0; i < n; i++) { const t = (duration * 0.12) +
\*   (duration * 0.76) * (i / Math.max(1, n - 1)); timestamps.push(...) }
Timestamps(d, count) ==
    [k \in 1..count |->
        Timestamp(d, RatAdd(RatMul(d, <<12, 100>>),
                            RatMul(RatMul(d, <<76, 100>>), <<k - 1, Max2(1, count - 1)>>)))]

\* The temporary files of a request: the upload and the frame PNGs
InputPath == <<"upload", 0>>
FramePath(k) == <<"frame", k>>

\* cleanup.forEach((fn) => fn())
RunCleanup == scheduled' = scheduled \cup cleanup

\* new OpenAI({apiKey: process.env.OPENAI_API_KEY}): the options the client
\* is built with
ClientOptions == {"apiKey"}

\* openai.chat.completions.create({model, messages, max_tokens,
\* temperature}): the call as issued, with the names of the options it
\* carries (those of the request and those of the client)
ExternalCall(model) ==
    [model |-> model,
     options |-> {"model", "messages", "max_tokens", "temperature"} \cup ClientOptions]

\* What ffprobeDims yields: the size of the video, a non-number (no video
\* stream in the file), or an error thrown by ffprobe.
ProbeOutcomes == {"dims", "nan", "throws"}

\* req.body.num_frames as read by the handler
NumFramesInputs ==
    {[kind |-> "absent"], [kind |-> "text"]}
    \cup {[kind |-> "num", v |-> q] :
            q \in {Num(0), Num(-2), <<1, 2>>, Num(1), Num(2), <<5, 2>>, Num(3), Num(9), Num(12)}}

\* const numFrames = req.body.num_frames ? Number(req.body.num_frames) : 5;
\* const n = Number.isFinite(numFrames) && numFrames > 0
\*             ? Math.min(9, Math.max(1, Math.floor(numFrames))) : 5
NumFrames(nf) ==
    IF nf.kind = "num" /\ nf.v[1] > 0
    THEN Min2(9, Max2(1, MathFloor(nf.v)))
    ELSE 5

-----------------------------------------------------------------------------
(* The /detect-ai handler of the content-box revision (part_004): Spec.    *)
(* One action per stretch of the handler between two awaits.               *)

Init ==
    /\ IdleDetector
    /\ pc = "start" /\ video \in 1..Len(Videos)
    /\ src_w = 0 /\ src_h = 0 /\ detectorParams = Null
    /\ n = 0 /\ i = 0 /\ intersectionBox = Null /\ pickedFrameForAI = FALSE
    /\ frameBoxes = << >> /\ initialCrop = Null /\ reply = Null /\ refined = Null
    /\ res = Null
    /\ duration = Null /\ timestamps = << >>
    /\ cleanup = {} /\ created = {} /\ scheduled = {}
    /\ frames = 0 /\ firstPng = Null /\ enforcedTop = 0 /\ enforcedBottom = 0
    /\ call = Null
    /\ clock = 0 /\ requests = << >> /\ files = << >>
    /\ txt = << >> /\ jsonMatch = << >> /\ parsed = Null /\ stderr = << >>

Respond(r) == res' = r /\ pc' = "done"

\* if (!req.file) return 400; const {w, h} = await ffprobeDims(inputPath);
\* if (!Number.isFinite(src_w) || !Number.isFinite(src_h)) return 400
DetectAiStart ==
    /\ pc = "start"
    /\ \E file \in BOOLEAN, probe \in ProbeOutcomes :
          IF ~file
          THEN /\ Respond(ErrorResponse(400, "No file uploaded. Use field name 'file'."))
               /\ UNCHANGED <<src_w, src_h, fileVars>>
          ELSE /\ created' = {InputPath}
               /\ cleanup' = {InputPath}
               /\ CASE probe = "throws" ->
                      /\ Respond(ErrorResponse(500, "detect-ai failed"))
                      /\ scheduled' = scheduled \cup cleanup'
                      /\ UNCHANGED <<src_w, src_h>>
                 [] probe = "nan" ->
                      /\ Respond(ErrorResponse(400, "Could not read video dimensions."))
                      /\ UNCHANGED <<src_w, src_h, scheduled>>
                 [] probe = "dims" ->
                      /\ src_w' = VideoWidth(video) /\ src_h' = VideoHeight(video)
                      /\ pc' = "duration" /\ UNCHANGED <<res, scheduled>>
    /\ UNCHANGED <<video, detectorParams, n, i, intersectionBox, pickedFrameForAI,
                   frameBoxes, initialCrop, reply, refined, duration, timestamps>>
    /\ UNCHANGED hybridVars
    /\ UNCHANGED detVars
    /\ UNCHANGED textVars
    /\ UNCHANGED pairVars
    /\ UNCHANGED call

\* const duration = await ffprobeDuration(inputPath); n; timestamps;
\* detectorParams; intersectionBox = null; pickedFrameForAI = null
DetectAiDuration ==
    /\ pc = "duration"
    /\ \E throws \in BOOLEAN, nf \in NumFramesInputs, o \in OptsSet :
          IF throws
          THEN /\ Respond(ErrorResponse(500, "detect-ai failed"))
               /\ RunCleanup
               /\ UNCHANGED <<n, detectorParams, duration, timestamps>>
          ELSE /\ duration' = ffprobeDuration(Videos[video].probed)
               /\ n' = NumFrames(nf)
               /\ timestamps' = Timestamps(duration', n')
               /\ detectorParams' = o
               /\ pc' = "loop" /\ UNCHANGED <<res, scheduled>>
    /\ UNCHANGED <<video, src_w, src_h, i, intersectionBox, pickedFrameForAI,
                   frameBoxes, initialCrop, reply, refined, cleanup, created>>
    /\ UNCHANGED hybridVars
    /\ UNCHANGED detVars
    /\ UNCHANGED textVars
    /\ UNCHANGED pairVars
    /\ UNCHANGED call

\* One iteration of for (let i = 0; i < timestamps.length; i++): the frame
\* is extracted, read and analysed, or something in the try block throws
\* and the frame is skipped.
DetectAiFrame ==
    /\ pc = "loop" /\ i < Len(timestamps)
    /\ cleanup' = cleanup \cup {FramePath(i)}
    /\ \E extracted \in BOOLEAN :
          IF extracted
          THEN LET b == FrameBox(video, i, detectorParams)
               IN  /\ created' = created \cup {FramePath(i)}
                   /\ intersectionBox' = IF intersectionBox # Null
                                         THEN intersectBoxes(intersectionBox, b)
                                         ELSE b
                   /\ pickedFrameForAI' = IF i = n \div 2 THEN TRUE ELSE pickedFrameForAI
                   /\ frameBoxes' = Append(frameBoxes, b)
          ELSE UNCHANGED <<intersectionBox, pickedFrameForAI, frameBoxes, created>>
    /\ i' = i + 1
    /\ UNCHANGED <<pc, video, src_w, src_h, detectorParams, n, initialCrop, reply,
                   refined, res, duration, timestamps, scheduled>>
    /\ UNCHANGED hybridVars
    /\ UNCHANGED detVars
    /\ UNCHANGED textVars
    /\ UNCHANGED pairVars
    /\ UNCHANGED call

\* After the loop: 500 when no frame was analysed; else initialCrop, canRefine
\* and final; without refinement the response is sent at once.
DetectAiAfterLoop ==
    /\ pc = "loop" /\ i = Len(timestamps)
    /\ IF intersectionBox = Null
       THEN /\ Respond(ErrorResponse(500, "Failed to analyze frames for content box."))
            /\ UNCHANGED <<initialCrop, scheduled, call>>
       ELSE /\ initialCrop' = boxToCrop(intersectionBox)
            /\ \E aiRefineRequested \in BOOLEAN, hasKey \in BOOLEAN :
                  LET canRefine == aiRefineRequested /\ hasKey /\ pickedFrameForAI
                  IN  IF canRefine
                      THEN /\ pc' = "refine" /\ UNCHANGED <<res, scheduled>>
                           /\ call' = ExternalCall("gpt-5-mini")
                      ELSE /\ RunCleanup
                           /\ UNCHANGED call
                           /\ Respond(OkResponse(FinalOfCrop(initialCrop'), src_w, src_h,
                                                  Len(timestamps)))
    /\ frameBoxes' = << >>
    /\ UNCHANGED <<video, src_w, src_h, detectorParams, n, i, intersectionBox,
                   pickedFrameForAI, reply, refined, duration, timestamps, cleanup,
                   created>>
    /\ UNCHANGED hybridVars
    /\ UNCHANGED detVars
    /\ UNCHANGED textVars
    /\ UNCHANGED pairVars

\* The awaited refineWithGPT5Mini settles: try/catch, cleanup, res.json
DetectAiRefine ==
    /\ pc = "refine"
    /\ \E r \in Replies \cup OddReplies :
          /\ reply' = r
          /\ refined' = CASE r.kind = "json" -> refineWithGPT5Mini(initialCrop, r.j)
                           [] r.kind = "oddJson" -> refineWithGPT5MiniJs(initialCrop, r.j)
                           [] OTHER -> Null
          /\ call' = Null
          /\ RunCleanup
          /\ Respond(OkResponse(FinalAfterRefine(initialCrop, r, src_w, src_h),
                                src_w, src_h, Len(timestamps)))
    /\ UNCHANGED <<video, src_w, src_h, detectorParams, n, i, intersectionBox,
                   pickedFrameForAI, frameBoxes, initialCrop, duration, timestamps,
                   cleanup, created>>
    /\ UNCHANGED hybridVars
    /\ UNCHANGED detVars
    /\ UNCHANGED textVars
    /\ UNCHANGED pairVars

Next ==
    \/ DetectAiStart
    \/ DetectAiDuration
    \/ DetectAiFrame
    \/ DetectAiAfterLoop
    \/ DetectAiRefine

Spec == Init /\ [][Next]_vars

-----------------------------------------------------------------------------
(* The /detect-ai handler of the single-frame revision (server.js):        *)
(* SpecServer.  The crop comes from the external model alone.              *)

\* What ffprobeDims yields for the uploaded videos: <<w, h>>
ProbedSizes == {<<1080, 1920>>, <<720, 1280>>, <<100, 150>>}

\* "Validate and enforce minimum cropping" and "Ensure crop stays within
\* bounds", on the object JSON.parse returned
ServerCrop(cropData, w, h) ==
    LET crop_x  == Max2(0, MathFloor(cropData.crop_x))
        y0      == Max2(0, MathFloor(cropData.crop_y))
        crop_y  == IF y0 < 80 THEN 100 ELSE y0
        h0      == MathFloor(cropData.crop_h)
        bottom_margin == h - (crop_y + h0)
        h1      == IF bottom_margin < 80 THEN h - crop_y - 100 ELSE h0
    IN  [x |-> crop_x, y |-> crop_y,
         crop_w |-> Max2(10, Min2(w - crop_x, MathFloor(cropData.crop_w))),
         crop_h |-> Max2(10, Min2(h - crop_y, h1))]

\* return res.json({crop_w, crop_h, x, y, src_w, src_h, ..., ai_powered: true})
ServerOkResponse(c, w, h, analyzed) ==
    [status |-> 200, x |-> c.x, y |-> c.y, crop_w |-> c.crop_w, crop_h |-> c.crop_h,
     src_w |-> w, src_h |-> h, frames_analyzed |-> analyzed, ai_powered |-> TRUE]

\* What ffprobe prints for format.duration: a number, or none (Absent)
ServerProbedDurations == {Absent, Num(0), Num(60), <<3, 2>>}

\* Number(durationData?.format?.duration) || 10
ServerDuration(d) == IF d = Absent \/ d[1] = 0 THEN Num(10) ELSE d

ServerInit ==
    /\ IdleDetector
    /\ pc = "server_start" /\ video = 0
    /\ src_w = 0 /\ src_h = 0 /\ detectorParams = Null
    /\ n = 0 /\ i = 0 /\ intersectionBox = Null /\ pickedFrameForAI = FALSE
    /\ frameBoxes = << >> /\ initialCrop = Null /\ reply = Null /\ refined = Null
    /\ res = Null
    /\ duration = Null /\ timestamps = << >>
    /\ cleanup = {} /\ created = {} /\ scheduled = {}
    /\ frames = 0 /\ firstPng = Null /\ enforcedTop = 0 /\ enforcedBottom = 0
    /\ call = Null
    /\ clock = 0 /\ requests = << >> /\ files = << >>
    /\ txt = << >> /\ jsonMatch = << >> /\ parsed = Null /\ stderr = << >>

\* if (!req.file) return 400; const {w, h} = await ffprobeDims(inputPath);
\* if (!Number.isFinite(src_w) || !Number.isFinite(src_h)) return 400
ServerDetectAiStart ==
    /\ pc = "server_start"
    /\ \E file \in BOOLEAN, probe \in ProbeOutcomes, size \in ProbedSizes :
          IF ~file
          THEN /\ Respond(ErrorResponse(400, "No file uploaded. Use field name 'file'."))
               /\ UNCHANGED <<src_w, src_h, created>>
          ELSE /\ created' = {InputPath}
               /\ CASE probe = "throws" ->
                      /\ Respond(ErrorResponse(500, "AI detection failed"))
                      /\ UNCHANGED <<src_w, src_h>>
                 [] probe = "nan" ->
                      /\ Respond(ErrorResponse(400, "Could not read video dimensions."))
                      /\ UNCHANGED <<src_w, src_h>>
                 [] probe = "dims" ->
                      /\ src_w' = size[1] /\ src_h' = size[2]
                      /\ pc' = "server_duration" /\ UNCHANGED res
    /\ UNCHANGED <<video, detectorParams, n, i, intersectionBox, pickedFrameForAI,
                   frameBoxes, initialCrop, reply, refined, duration, timestamps,
                   cleanup, scheduled>>
    /\ UNCHANGED hybridVars
    /\ UNCHANGED detVars
    /\ UNCHANGED textVars
    /\ UNCHANGED pairVars
    /\ UNCHANGED call

\* await run("ffprobe", ...); JSON.parse(durationOutput); numFrames = 1;
\* timestamps = [duration * 0.4]
ServerDetectAiDuration ==
    /\ pc = "server_duration"
    /\ \E throws \in BOOLEAN, d \in ServerProbedDurations :
          IF throws
          THEN /\ Respond(ErrorResponse(500, "AI detection failed"))
               /\ UNCHANGED <<n, duration, timestamps>>
          ELSE /\ duration' = ServerDuration(d)
               /\ n' = 1
               /\ timestamps' = <<RatMul(duration', <<4, 10>>)>>
               /\ pc' = "server_frames" /\ UNCHANGED res
    /\ UNCHANGED <<video, src_w, src_h, detectorParams, i, intersectionBox,
                   pickedFrameForAI, frameBoxes, initialCrop, reply, refined>>
    /\ UNCHANGED fileVars
    /\ UNCHANGED hybridVars
    /\ UNCHANGED detVars
    /\ UNCHANGED textVars
    /\ UNCHANGED pairVars
    /\ UNCHANGED call

\* The loop over timestamps (one of them): the frame is extracted and pushed,
\* or the try block throws and it is skipped; if (frames.length === 0)
\* return 500
ServerDetectAiFrame ==
    /\ pc = "server_frames" /\ i < Len(timestamps)
    /\ \E extracted \in BOOLEAN :
          IF extracted
          THEN /\ frames' = frames + 1
               /\ created' = created \cup {FramePath(i)}
               /\ scheduled' = scheduled \cup {FramePath(i)}
               /\ call' = ExternalCall("gpt-4o-mini")
               /\ pc' = "server_openai" /\ UNCHANGED res
          ELSE /\ Respond(ErrorResponse(500, "Failed to extract any frames from video"))
               /\ UNCHANGED <<frames, created, scheduled, call>>
    /\ i' = i + 1
    /\ UNCHANGED <<video, src_w, src_h, detectorParams, n, intersectionBox,
                   pickedFrameForAI, frameBoxes, initialCrop, reply, refined,
                   duration, timestamps, cleanup, firstPng, enforcedTop,
                   enforcedBottom>>
    /\ UNCHANGED detVars
    /\ UNCHANGED textVars
    /\ UNCHANGED pairVars

\* The awaited openai.chat.completions.create settles: a rejection reaches
\* the outer catch; a reply without a {...} block or with invalid JSON
\* returns 500 from the inner catch; else the crop is computed and sent.
ServerDetectAiReply ==
    /\ pc = "server_openai"
    /\ \E r \in Replies :
          /\ reply' = r
          /\ CASE r.kind = "rejected" ->
                    Respond(ErrorResponse(500, "AI detection failed"))
               [] r.kind \in {"noJson", "badJson"} ->
                    Respond(ErrorResponse(500, "Failed to parse AI response"))
               [] r.kind = "json" ->
                    Respond(ServerOkResponse(ServerCrop(r.j, src_w, src_h), src_w, src_h,
                                             frames))
          /\ scheduled' = IF r.kind = "json" THEN scheduled \cup {InputPath} ELSE scheduled
          /\ call' = Null
    /\ UNCHANGED <<video, src_w, src_h, detectorParams, n, i, intersectionBox,
                   pickedFrameForAI, frameBoxes, initialCrop, refined, duration,
                   timestamps, cleanup, created>>
    /\ UNCHANGED hybridVars
    /\ UNCHANGED detVars
    /\ UNCHANGED textVars
    /\ UNCHANGED pairVars

ServerNext ==
    \/ ServerDetectAiStart
    \/ ServerDetectAiDuration
    \/ ServerDetectAiFrame
    \/ ServerDetectAiReply

SpecServer == ServerInit /\ [][ServerNext]_vars

-----------------------------------------------------------------------------
(* The /detect-ai handler of the revision that enforces heuristic bounds   *)
(* on the external model's crop (part_001): SpecHybrid.                    *)

HybridW == 12
HybridH == 40

\* req.body.x ? Number(req.body.x) : dflt
NumberOr(b, dflt) == IF b = Absent THEN dflt ELSE b

\* function clampInt(n, min, max) of part_001: min when Math.floor(Number(n))
\* is not finite
clampIntFinite(v, min, max) ==
    IF IsNaN(v) THEN min ELSE Max2(min, Min2(max, MathFloor(v)))

RatDiv(p, q) == Reduced(<<p[1] * q[2], p[2] * q[1]>>)

\* Math.ceil of a positive rational
MathCeil(q) == -((-q[1]) \div q[2])

\* The frames the uploaded videos hold, row by row: all picture; black bars
\* above and below the picture; captions (white text on black) above and
\* below; all black
HybridFrameNames == {"plain", "bars", "caption", "black"}

HybridRow(name, y) ==
    CASE name = "plain" -> "bright"
      [] name = "bars" ->
            IF y < HybridH \div 5 \/ y >= HybridH - HybridH \div 10
            THEN "black" ELSE "bright"
      [] name = "caption" ->
            IF y < HybridH \div 4 \/ y >= HybridH - HybridH \div 8
            THEN "text" ELSE "bright"
      [] name = "black" -> "black"

HybridFrame(name) ==
    MkPng(HybridW, HybridH, LAMBDA x, y : RowPixel(HybridRow(name, y), x))

\* The uploaded videos: what their frames show and what ffprobe prints for
\* format.duration
HybridVideos ==
    <<[frame |-> "plain", probed |-> Num(60)],
      [frame |-> "bars", probed |-> <<3, 2>>],
      [frame |-> "caption", probed |-> Absent],
      [frame |-> "black", probed |-> <<1, 10>>]>>

\* const numFrames = req.body.num_frames
\*     ? Math.max(1, Math.min(5, Number(req.body.num_frames))) : 3
HybridNumFrames(nf) ==
    CASE nf.kind = "absent" -> Num(3)
      [] nf.kind = "text" -> NaN
      [] nf.kind = "num" -> RatMax(Num(1), RatMin(Num(5), nf.v))

\* for (let i = 0; i < numFrames; i++) timestamps.push(Math.min(duration *
\*   0.9, (duration / (numFrames + 1)) * (i + 1)))
HybridTimestamps(d, numFrames) ==
    IF IsNaN(numFrames) THEN << >>
    ELSE [k \in 1..MathCeil(numFrames) |->
            RatMin(RatMul(d, <<9, 10>>),
                   RatMul(RatDiv(d, RatAdd(numFrames, Num(1))), Num(k)))]

\* The fields of req.body the enforcement reads
HybridBodyOf(margin, threshold, ratio) ==
    [safe_margin |-> margin, dark_threshold |-> threshold,
     scan_top_ratio |-> ratio, scan_bottom_ratio |-> ratio]

HybridBodies ==
    {HybridBodyOf(margin, Absent, Absent) : margin \in {Absent, Num(0), Num(-50), NaN}}
    \cup {HybridBodyOf(Absent, Num(200), Absent), HybridBodyOf(Absent, Absent, Num(1))}

\* detectCutsFromPng(firstPng, {darkThreshold}); 0.02 and 0.45 are the
\* defaults of this revision
HybridCuts(p, body) ==
    detectCutsFromPng(p, [darkThreshold |-> NumberOr(body.dark_threshold, Num(35)),
                          minBandRatio |-> <<2, 100>>, maxBandRatio |-> <<45, 100>>])

\* detectTextOnDarkBands(firstPng, {scanTopRatio, scanBottomRatio})
HybridBands(p, body) ==
    detectTextOnDarkBands(p, BandOptsOf(NumberOr(body.scan_top_ratio, <<40, 100>>),
                                        NumberOr(body.scan_bottom_ratio, <<30, 100>>)))

\* enforcedTop = Math.max(topCut, top_overlay_end) + safeMargin, clamped to
\* 0..floor(src_h * 0.55); enforcedBottom likewise to 0..floor(src_h * 0.40);
\* both 0 when no frame was decoded
Enforced(first, body, h) ==
    IF first = Null THEN [top |-> 0, bottom |-> 0]
    ELSE LET p == HybridFrame(first.frame)
             c == HybridCuts(p, body)
             b == HybridBands(p, body)
             safeMargin == NumberOr(body.safe_margin, Num(14))
             plus(v) == IF IsNaN(safeMargin) THEN NaN ELSE RatAdd(Num(v), safeMargin)
         IN  [top    |-> clampIntFinite(plus(Max2(c.topCut, b.top_overlay_end)),
                                        0, FloorOfRatio(<<55, 100>>, h)),
              bottom |-> clampIntFinite(plus(Max2(c.bottomCut, h - b.bottom_overlay_start)),
                                        0, FloorOfRatio(<<40, 100>>, h))]

\* What the reply of the external model can be for this handler: as for the
\* other revisions, an object with a field that is no number, or a crop
\* nearly as wide as the source that starts right of its left edge
HybridReplies ==
    Replies \cup OddReplies
    \cup {[kind |-> "json", j |-> [crop_x |-> Num(5), crop_y |-> Num(3),
                                   crop_w |-> Num(HybridW - 1), crop_h |-> Num(20)]]}

\* the crop without the "Prefer full width" step
HybridCropKeepWidth(cropData, w, h, eTop, eBottom) ==
    LET x0 == clampIntFinite(cropData.crop_x, 0, w - 10)
        y0 == clampIntFinite(cropData.crop_y, 0, h - 10)
        w0 == clampIntFinite(cropData.crop_w, 10, w)
        h0 == clampIntFinite(cropData.crop_h, 10, h)
        x2 == IF x0 + w0 > w THEN Max2(0, w - w0) ELSE x0
        y1 == Max2(y0, eTop)
        maxBottomY == h - eBottom
        h1 == IF y1 + h0 > maxBottomY THEN Max2(10, maxBottomY - y1) ELSE h0
        crop_x == Max2(0, Min2(w - 10, x2))
        crop_y == Max2(0, Min2(h - 10, y1))
    IN  [x |-> crop_x, y |-> crop_y,
         crop_w |-> Max2(10, Min2(w - crop_x, w0)),
         crop_h |-> Max2(10, Min2(h - crop_y, h1))]

\* "Proposed crop", "Prefer full width", "HARD ENFORCEMENT" and "Final
\* clamp", on the object JSON.parse returned
HybridCrop(cropData, w, h, eTop, eBottom) ==
    LET x0 == clampIntFinite(cropData.crop_x, 0, w - 10)
        y0 == clampIntFinite(cropData.crop_y, 0, h - 10)
        w0 == clampIntFinite(cropData.crop_w, 10, w)
        h0 == clampIntFinite(cropData.crop_h, 10, h)
        narrow == w0 * 100 < w * 85
        x1 == IF narrow THEN 0 ELSE x0
        w1 == IF narrow THEN w ELSE w0
        x2 == IF x1 + w1 > w THEN Max2(0, w - w1) ELSE x1
        y1 == Max2(y0, eTop)
        maxBottomY == h - eBottom
        h1 == IF y1 + h0 > maxBottomY THEN Max2(10, maxBottomY - y1) ELSE h0
        crop_x == Max2(0, Min2(w - 10, x2))
        crop_y == Max2(0, Min2(h - 10, y1))
    IN  [x |-> crop_x, y |-> crop_y,
         crop_w |-> Max2(10, Min2(w - crop_x, w1)),
         crop_h |-> Max2(10, Min2(h - crop_y, h1))]

\* return res.json({crop_w, crop_h, x, y, src_w, src_h, ...,
\* heuristic_enforced_top, heuristic_enforced_bottom, ai_powered: true})
HybridOkResponse(c, w, h, analyzed, eTop, eBottom) ==
    [status |-> 200, x |-> c.x, y |-> c.y, crop_w |-> c.crop_w, crop_h |-> c.crop_h,
     src_w |-> w, src_h |-> h, frames_analyzed |-> analyzed,
     heuristic_enforced_top |-> eTop, heuristic_enforced_bottom |-> eBottom,
     ai_powered |-> TRUE]

HybridInit ==
    /\ IdleDetector
    /\ pc = "hybrid_start" /\ video \in 1..Len(HybridVideos)
    /\ src_w = 0 /\ src_h = 0 /\ detectorParams = Null
    /\ n = 0 /\ i = 0 /\ intersectionBox = Null /\ pickedFrameForAI = FALSE
    /\ frameBoxes = << >> /\ initialCrop = Null /\ reply = Null /\ refined = Null
    /\ res = Null
    /\ duration = Null /\ timestamps = << >>
    /\ cleanup = {} /\ created = {} /\ scheduled = {}
    /\ frames = 0 /\ firstPng = Null /\ enforcedTop = 0 /\ enforcedBottom = 0
    /\ call = Null
    /\ clock = 0 /\ requests = << >> /\ files = << >>
    /\ txt = << >> /\ jsonMatch = << >> /\ parsed = Null /\ stderr = << >>

\* if (!req.file) return 400; const {w, h} = await ffprobeDims(inputPath);
\* if (!Number.isFinite(src_w) || !Number.isFinite(src_h)) return 400
HybridDetectAiStart ==
    /\ pc = "hybrid_start"
    /\ \E file \in BOOLEAN, probe \in ProbeOutcomes :
          IF ~file
          THEN /\ Respond(ErrorResponse(400, "No file uploaded. Use field name 'file'."))
               /\ UNCHANGED <<src_w, src_h, created>>
          ELSE /\ created' = {InputPath}
               /\ CASE probe = "throws" ->
                      /\ Respond(ErrorResponse(500, "AI detection failed"))
                      /\ UNCHANGED <<src_w, src_h>>
                 [] probe = "nan" ->
                      /\ Respond(ErrorResponse(400, "Could not read video dimensions."))
                      /\ UNCHANGED <<src_w, src_h>>
                 [] probe = "dims" ->
                      /\ src_w' = HybridW /\ src_h' = HybridH
                      /\ pc' = "hybrid_duration" /\ UNCHANGED res
    /\ UNCHANGED <<video, detectorParams, n, i, intersectionBox, pickedFrameForAI,
                   frameBoxes, initialCrop, reply, refined, duration, timestamps,
                   cleanup, scheduled>>
    /\ UNCHANGED hybridVars
    /\ UNCHANGED detVars
    /\ UNCHANGED textVars
    /\ UNCHANGED pairVars
    /\ UNCHANGED call

\* const duration = await ffprobeDuration(inputPath); numFrames; timestamps;
\* frames = []; firstPng = null
HybridDetectAiDuration ==
    /\ pc = "hybrid_duration"
    /\ \E throws \in BOOLEAN, nf \in NumFramesInputs :
          IF throws
          THEN /\ Respond(ErrorResponse(500, "AI detection failed"))
               /\ UNCHANGED <<n, duration, timestamps>>
          ELSE /\ duration' = ffprobeDuration(HybridVideos[video].probed)
               /\ timestamps' = HybridTimestamps(duration', HybridNumFrames(nf))
               /\ n' = Len(timestamps')
               /\ pc' = "hybrid_loop" /\ UNCHANGED res
    /\ UNCHANGED <<video, src_w, src_h, detectorParams, i, intersectionBox,
                   pickedFrameForAI, frameBoxes, initialCrop, reply, refined>>
    /\ UNCHANGED fileVars
    /\ UNCHANGED hybridVars
    /\ UNCHANGED detVars
    /\ UNCHANGED textVars
    /\ UNCHANGED pairVars
    /\ UNCHANGED call

\* One iteration of for (let i = 0; i < timestamps.length; i++): nothing
\* catches a rejection of run("ffmpeg", ...) or an error of readFileSync,
\* which reach the catch of the handler; an error of PNG.sync.read is
\* caught and leaves firstPng as it was.
HybridDetectAiFrame ==
    /\ pc = "hybrid_loop" /\ i < Len(timestamps)
    /\ \E outcome \in {"read", "undecodable", "failed"} :
          IF outcome = "failed"
          THEN /\ Respond(ErrorResponse(500, "AI detection failed"))
               /\ UNCHANGED <<frames, firstPng, created, scheduled>>
          ELSE /\ frames' = frames + 1
               /\ firstPng' = IF firstPng = Null /\ outcome = "read"
                               THEN [frame |-> HybridVideos[video].frame]
                               ELSE firstPng
               /\ created' = created \cup {FramePath(i)}
               /\ scheduled' = scheduled \cup {FramePath(i)}
               /\ UNCHANGED <<pc, res>>
    /\ i' = i + 1
    /\ UNCHANGED <<video, src_w, src_h, detectorParams, n, intersectionBox,
                   pickedFrameForAI, frameBoxes, initialCrop, reply, refined,
                   duration, timestamps, cleanup, enforcedTop, enforcedBottom>>
    /\ UNCHANGED detVars
    /\ UNCHANGED textVars
    /\ UNCHANGED pairVars
    /\ UNCHANGED call

\* After the loop: 500 when frames is empty; else safeMargin, enforcedTop
\* and enforcedBottom, and the request to the external model is sent.
HybridDetectAiEnforce ==
    /\ pc = "hybrid_loop" /\ i = Len(timestamps)
    /\ IF frames = 0
       THEN /\ scheduled' = scheduled \cup {InputPath}
            /\ Respond(ErrorResponse(500, "Failed to extract frames."))
            /\ UNCHANGED <<enforcedTop, enforcedBottom, call>>
       ELSE /\ \E body \in HybridBodies :
                  LET e == Enforced(firstPng, body, src_h)
                  IN  enforcedTop' = e.top /\ enforcedBottom' = e.bottom
            /\ call' = ExternalCall("gpt-5-mini")
            /\ pc' = "hybrid_openai"
            /\ UNCHANGED <<res, scheduled>>
    /\ UNCHANGED <<video, src_w, src_h, detectorParams, n, i, intersectionBox,
                   pickedFrameForAI, frameBoxes, initialCrop, reply, refined,
                   duration, timestamps, cleanup, created, frames, firstPng>>
    /\ UNCHANGED detVars
    /\ UNCHANGED textVars
    /\ UNCHANGED pairVars

\* The awaited openai.chat.completions.create settles: a rejection reaches
\* the catch of the handler; a reply without a {...} block or with invalid
\* JSON returns 500; else the crop is computed and sent.
HybridDetectAiReply ==
    /\ pc = "hybrid_openai"
    /\ \E r \in HybridReplies :
          /\ reply' = r
          /\ call' = Null
          /\ CASE r.kind = "rejected" ->
                    /\ Respond(ErrorResponse(500, "AI detection failed"))
                    /\ UNCHANGED scheduled
               [] r.kind \in {"noJson", "badJson"} ->
                    /\ scheduled' = scheduled \cup {InputPath}
                    /\ Respond(ErrorResponse(500, "Failed to parse AI response"))
               [] r.kind \in {"json", "oddJson"} ->
                    /\ scheduled' = scheduled \cup {InputPath}
                    /\ Respond(HybridOkResponse(
                            HybridCrop(r.j, src_w, src_h, enforcedTop, enforcedBottom),
                            src_w, src_h, frames, enforcedTop, enforcedBottom))
    /\ UNCHANGED <<video, src_w, src_h, detectorParams, n, i, intersectionBox,
                   pickedFrameForAI, frameBoxes, initialCrop, refined, duration,
                   timestamps, cleanup, created>>
    /\ UNCHANGED hybridVars
    /\ UNCHANGED detVars
    /\ UNCHANGED textVars
    /\ UNCHANGED pairVars

HybridNext ==
    \/ HybridDetectAiStart
    \/ HybridDetectAiDuration
    \/ HybridDetectAiFrame
    \/ HybridDetectAiEnforce
    \/ HybridDetectAiReply

SpecHybrid == HybridInit /\ [][HybridNext]_vars

-----------------------------------------------------------------------------
(* Two concurrent requests to /detect (part_004), each handled between its *)
(* awaits, sharing the clock and /tmp: SpecPair.                           *)

MaxClock == 1

Requests == {"first", "second"}

\* What the uploaded videos show (frames of HybridFrame)
PairVideos == {"bars", "plain", "black"}

\* path.join("/tmp", `frame-${Date.now()}.png`): the path is told by the
\* clock reading in its name
FramePathAt(now) == now

\* req.body.safe_margin ? Number(req.body.safe_margin) : 10
PairSafeMargins == {10, 0, 40}

\* req.body.min_band_ratio and req.body.max_band_ratio as numbers (0.03 and
\* 0.35 when absent)
PairBandRatios == {<<(<<3, 100>>), (<<35, 100>>)>>, <<(<<3, 100>>), (<<3, 2>>)>>}

\* detectCutsFromPng(png, {darkThreshold, minBandRatio, maxBandRatio}) with
\* the defaults of /detect, the crop that keeps the full width, res.json
DetectOkResponse(frameName, w, h, safeMargin, ratios) ==
    LET c == detectCutsFromPng(HybridFrame(frameName),
                 [darkThreshold |-> Num(35), minBandRatio |-> ratios[1],
                  maxBandRatio |-> ratios[2]])
    IN  [status |-> 200, crop_w |-> w,
         crop_h |-> Max2(10, h - c.topCut - c.bottomCut - safeMargin * 2),
         x |-> 0, y |-> Max2(0, c.topCut + safeMargin),
         src_w |-> w, src_h |-> h, top_cut |-> c.topCut, bottom_cut |-> c.bottomCut,
         safe_margin |-> safeMargin, ai_powered |-> FALSE]

\* A request as it arrives: nothing probed, no frame path, no frame read
NewRequest(v) ==
    [pc |-> "start", video |-> v, framePath |-> -1, written |-> FALSE,
     png |-> "none", res |-> Null]

PairInit ==
    /\ IdleDetector
    /\ pc = "pair" /\ video = 0 /\ src_w = 0 /\ src_h = 0 /\ detectorParams = Null
    /\ n = 0 /\ i = 0 /\ intersectionBox = Null /\ pickedFrameForAI = FALSE
    /\ frameBoxes = << >> /\ initialCrop = Null /\ reply = Null /\ refined = Null
    /\ res = Null
    /\ duration = Null /\ timestamps = << >>
    /\ cleanup = {} /\ created = {} /\ scheduled = {}
    /\ frames = 0 /\ firstPng = Null /\ enforcedTop = 0 /\ enforcedBottom = 0
    /\ call = Null
    /\ clock = 0
    /\ \E v \in [Requests -> PairVideos] : requests = [r \in Requests |-> NewRequest(v[r])]
    /\ files = [p \in 0..MaxClock |-> "absent"]
    /\ txt = << >> /\ jsonMatch = << >> /\ parsed = Null /\ stderr = << >>

PairUnchanged == UNCHANGED <<detVars, pc, video, src_w, src_h, detectorParams, n, i,
                             intersectionBox, pickedFrameForAI, frameBoxes, initialCrop,
                             reply, refined, res, duration, timestamps, fileVars,
                             hybridVars, call, textVars>>

\* A millisecond passes
PairTick ==
    /\ clock < MaxClock
    /\ clock' = clock + 1
    /\ UNCHANGED <<requests, files>>
    /\ PairUnchanged

\* if (!req.file) return 400; await ffprobeDims(inputPath); 400 when the
\* dimensions are no numbers; framePath = frame-${Date.now()}.png; ffmpeg
\* is started
PairDetectStart(r) ==
    /\ requests[r].pc = "start"
    /\ \E file \in BOOLEAN, probe \in ProbeOutcomes :
          LET answer(e) == [requests EXCEPT ![r].pc = "done", ![r].res = e]
          IN  IF ~file
              THEN requests' = answer(ErrorResponse(400, "No file uploaded. Use field name 'file'."))
              ELSE CASE probe = "throws" ->
                          requests' = answer(ErrorResponse(500, "detect failed"))
                     [] probe = "nan" ->
                          requests' = answer(ErrorResponse(400, "Could not read video dimensions."))
                     [] probe = "dims" ->
                          requests' = [requests EXCEPT ![r].pc = "ffmpeg",
                                                       ![r].framePath = FramePathAt(clock)]
    /\ UNCHANGED <<clock, files>>
    /\ PairUnchanged

\* The ffmpeg process of the request writes its frame to framePath (-y
\* overwrites) and exits, or fails and the promise rejects.
PairFfmpeg(r) ==
    /\ requests[r].pc = "ffmpeg"
    /\ \E exits \in BOOLEAN :
          IF exits
          THEN /\ files' = [files EXCEPT ![requests[r].framePath] = requests[r].video]
               /\ requests' = [requests EXCEPT ![r].pc = "extracted", ![r].written = TRUE]
          ELSE /\ requests' = [requests EXCEPT ![r].pc = "done",
                                               ![r].res = ErrorResponse(500, "detect failed")]
               /\ UNCHANGED files
    /\ UNCHANGED clock
    /\ PairUnchanged

\* After await run("ffmpeg", ...): readFileSync(framePath) (throws when the
\* file is gone), PNG.sync.read, detectCutsFromPng, the crop,
\* fs.unlink(framePath), res.json
PairDetectFinish(r) ==
    /\ requests[r].pc = "extracted"
    /\ LET buf == files[requests[r].framePath]
       IN  IF buf = "absent"
           THEN /\ requests' = [requests EXCEPT ![r].pc = "done",
                                                ![r].res = ErrorResponse(500, "detect failed")]
                /\ UNCHANGED files
           ELSE /\ \E safeMargin \in PairSafeMargins, ratios \in PairBandRatios :
                      requests' = [requests EXCEPT
                                      ![r].pc = "done", ![r].png = buf,
                                      ![r].res = DetectOkResponse(buf, HybridW, HybridH,
                                                                  safeMargin, ratios)]
                /\ files' = [files EXCEPT ![requests[r].framePath] = "absent"]
    /\ UNCHANGED clock
    /\ PairUnchanged

PairNext ==
    \/ PairTick
    \/ \E r \in Requests : PairDetectStart(r)
    \/ \E r \in Requests : PairFfmpeg(r)
    \/ \E r \in Requests : PairDetectFinish(r)

SpecPair == PairInit /\ [][PairNext]_vars

-----------------------------------------------------------------------------
(* The parsing of the external model's reply (refineWithGPT5Mini of        *)
(* part_004, /detect-ai of server.js and part_001): SpecParse.  A reply is *)
(* a sequence of tokens: a stretch of prose without braces, an opening     *)
(* brace, a closing brace, or a "name": value member of an object.         *)

MaxReplyLen == 5

Tokens == {"prose", "{", "}", "member"}

ReplyTexts == UNION {[1..k -> Tokens] : k \in 0..MaxReplyLen}

\* txt.match(/\{[\s\S]*\}/): from the first opening brace to the last
\* closing brace after it ([\s\S]* is greedy); << >> when there is no match
RegexMatch(t) ==
    LET opens == {k \in 1..Len(t) : t[k] = "{"}
        closes == {k \in 1..Len(t) : t[k] = "}" /\ k > Least(opens)}
    IN  IF opens = {} \/ closes = {} THEN << >>
        ELSE SubSeq(t, Least(opens), Greatest(closes))

\* JSON.parse accepts the text: one object, its members between the braces
IsJsonObject(t) ==
    /\ Len(t) >= 2 /\ t[1] = "{" /\ t[Len(t)] = "}"
    /\ \A k \in 2..(Len(t) - 1) : t[k] = "member"

\* const m = txt.match(...); if (!m) throw ...; const j = JSON.parse(m[0])
ParseOutcome(t) ==
    LET mt == RegexMatch(t)
    IN  IF mt = << >> THEN [kind |-> "noJson"]
        ELSE IF IsJsonObject(mt) THEN [kind |-> "json", members |-> Len(mt) - 2]
        ELSE [kind |-> "badJson"]

ParseInit ==
    /\ IdleDetector
    /\ pc = "parse" /\ video = 0 /\ src_w = 0 /\ src_h = 0 /\ detectorParams = Null
    /\ n = 0 /\ i = 0 /\ intersectionBox = Null /\ pickedFrameForAI = FALSE
    /\ frameBoxes = << >> /\ initialCrop = Null /\ reply = Null /\ refined = Null
    /\ res = Null
    /\ duration = Null /\ timestamps = << >>
    /\ cleanup = {} /\ created = {} /\ scheduled = {}
    /\ frames = 0 /\ firstPng = Null /\ enforcedTop = 0 /\ enforcedBottom = 0
    /\ call = Null
    /\ clock = 0 /\ requests = << >> /\ files = << >>
    /\ txt \in ReplyTexts /\ jsonMatch = << >> /\ parsed = Null /\ stderr = << >>

\* The reply is matched and parsed
ParseReply ==
    /\ pc = "parse"
    /\ jsonMatch' = RegexMatch(txt)
    /\ parsed' = ParseOutcome(txt)
    /\ pc' = "parsed"
    /\ UNCHANGED <<detVars, video, src_w, src_h, detectorParams, n, i, intersectionBox,
                   pickedFrameForAI, frameBoxes, initialCrop, reply, refined, res,
                   duration, timestamps, fileVars, hybridVars, call, pairVars, txt,
                   stderr>>

ParseNext == ParseReply

SpecParse == ParseInit /\ [][ParseNext]_vars

-----------------------------------------------------------------------------
(* POST /detect of part_003, which runs ffmpeg's cropdetect filter and     *)
(* answers its last crop=w:h:x:y line: SpecCropdetect.  ffmpeg applies the *)
(* stream's rotation before its filters, so cropdetect measures the        *)
(* displayed frame; ffprobe's stream=width,height are the coded            *)
(* dimensions.                                                             *)

CdW == 6
CdH == 4

\* The uploads: coded dimensions, whether the stream carries a quarter-turn
\* rotation, and whether ffprobe can read width and height
CropdetectVideos ==
    {[width |-> CdW, height |-> CdH, rotated |-> r, probe |-> p] :
        r \in BOOLEAN, p \in BOOLEAN}

DisplayedW(v) == IF v.rotated THEN v.height ELSE v.width
DisplayedH(v) == IF v.rotated THEN v.width ELSE v.height

\* cropdetect=...:round=2 prints even numbers, a rectangle of the frame it saw
CropLines(v) ==
    {[crop_w |-> cw, crop_h |-> ch, x |-> cx, y |-> cy] :
        cw \in {k \in 1..DisplayedW(v) : k % 2 = 0},
        ch \in {k \in 1..DisplayedH(v) : k % 2 = 0},
        cx \in {k \in 0..DisplayedW(v) : k % 2 = 0},
        cy \in {k \in 0..DisplayedH(v) : k % 2 = 0}}

FrameLines(v) ==
    {l \in CropLines(v) : l.x + l.crop_w <= DisplayedW(v) /\ l.y + l.crop_h <= DisplayedH(v)}

MaxStderrLines == 2

\* A line of stderr in which the regular expression finds nothing
OtherLine == [other |-> TRUE]

\* What ffmpeg wrote to stderr: crop lines and lines without crop=
StderrTexts(v) ==
    UNION {[1..k -> FrameLines(v) \cup {OtherLine}] : k \in 0..MaxStderrLines}

\* [...stderrText.matchAll(/crop=(\d+):(\d+):(\d+):(\d+)/g)], the last one
parseCropdetect(stderrText) ==
    LET matches == {k \in 1..Len(stderrText) : stderrText[k] # OtherLine}
    IN  IF matches = {} THEN Null ELSE stderrText[Greatest(matches)]

\* The "safety clamp to video bounds"
SafetyClamp(c, width, height) ==
    [crop_w |-> IF c.crop_w > width THEN width ELSE c.crop_w,
     crop_h |-> IF c.crop_h > height THEN height ELSE c.crop_h,
     x |-> IF c.x < 0 THEN 0 ELSE c.x,
     y |-> IF c.y < 0 THEN 0 ELSE c.y]

CropdetectInit ==
    /\ IdleDetector
    /\ pc = "start" /\ video \in CropdetectVideos /\ src_w = 0 /\ src_h = 0
    /\ detectorParams = Null
    /\ n = 0 /\ i = 0 /\ intersectionBox = Null /\ pickedFrameForAI = FALSE
    /\ frameBoxes = << >> /\ initialCrop = Null /\ reply = Null /\ refined = Null
    /\ res = Null
    /\ duration = Null /\ timestamps = << >>
    /\ cleanup = {} /\ created = {} /\ scheduled = {}
    /\ frames = 0 /\ firstPng = Null /\ enforcedTop = 0 /\ enforcedBottom = 0
    /\ call = Null
    /\ clock = 0 /\ requests = << >> /\ files = << >>
    /\ txt = << >> /\ jsonMatch = << >> /\ parsed = Null /\ stderr = << >>

CropdetectUnchanged ==
    UNCHANGED <<png, opts, dstep, rowIsContent, colIsContent, scan, box, scanVars,
                video, detectorParams, n, i, intersectionBox, pickedFrameForAI,
                frameBoxes, initialCrop, reply, refined, duration, timestamps,
                cleanup, hybridVars, call, pairVars, txt, jsonMatch, parsed>>

\* The upload and the three numeric parameters are checked
CropdetectStart ==
    /\ pc = "start"
    /\ \E hasFile \in BOOLEAN, finite \in BOOLEAN :
        IF ~hasFile
        THEN /\ res' = [status |-> 400, error |-> "No file uploaded. Use field name 'file'."]
             /\ pc' = "done"
             /\ UNCHANGED created
        ELSE /\ created' = {InputPath}
             /\ IF ~finite
                THEN /\ res' = [status |-> 400, error |-> "Invalid detect params"]
                     /\ pc' = "done"
                ELSE /\ pc' = "ffmpeg"
                     /\ UNCHANGED res
    /\ UNCHANGED <<crop, stderr, src_w, src_h, scheduled>>
    /\ CropdetectUnchanged

\* ffmpeg runs cropdetect; its stderr is kept whether it succeeds or fails
CropdetectFfmpeg ==
    /\ pc = "ffmpeg"
    /\ stderr' \in StderrTexts(video)
    /\ pc' = "parse"
    /\ UNCHANGED <<crop, res, src_w, src_h, created, scheduled>>
    /\ CropdetectUnchanged

\* const crop = parseCropdetect(stderr); if (!crop) return 422
CropdetectParse ==
    /\ pc = "parse"
    /\ crop' = parseCropdetect(stderr)
    /\ IF crop' = Null
       THEN /\ res' = [status |-> 422, error |-> "Could not detect crop"]
            /\ pc' = "done"
       ELSE /\ pc' = "probe"
            /\ UNCHANGED res
    /\ UNCHANGED <<stderr, src_w, src_h, created, scheduled>>
    /\ CropdetectUnchanged

\* The video is probed, the crop clamped, the upload unlinked, the answer sent
CropdetectProbe ==
    /\ pc = "probe"
    /\ IF ~video.probe
       THEN /\ res' = [status |-> 500, error |-> "detect failed"]
            /\ UNCHANGED <<crop, src_w, src_h, scheduled>>
       ELSE /\ src_w' = video.width
            /\ src_h' = video.height
            /\ crop' = SafetyClamp(crop, video.width, video.height)
            /\ scheduled' = scheduled \cup {InputPath}
            /\ res' = [status |-> 200, crop_w |-> crop'.crop_w, crop_h |-> crop'.crop_h,
                       x |-> crop'.x, y |-> crop'.y,
                       source_w |-> video.width, source_h |-> video.height]
    /\ pc' = "done"
    /\ UNCHANGED <<stderr, created>>
    /\ CropdetectUnchanged

CropdetectNext ==
    \/ CropdetectStart
    \/ CropdetectFfmpeg
    \/ CropdetectParse
    \/ CropdetectProbe

SpecCropdetect == CropdetectInit /\ [][CropdetectNext]_vars

-----------------------------------------------------------------------------
(* The consensus loop of /detect-ai (part_004) on its own, fed with boxes  *)
(* of one 100 x 100 video in every order: SpecFold.                        *)

MaxFoldLen == 3

\* Boxes that overlap widely, overlap in a strip, or do not overlap at all
ConsensusBoxes ==
    {[left |-> h[1], right |-> h[2], top |-> v[1], bottom |-> v[2],
      width |-> 100, height |-> 100] :
        h \in {<<0, 40>>, <<20, 99>>, <<60, 99>>},
        v \in {<<0, 35>>, <<0, 99>>, <<30, 99>>}}

\* intersectionBox after the loop has taken the boxes of seq, in order
RECURSIVE FoldBoxes(_)
FoldBoxes(seq) ==
    IF Len(seq) = 1 THEN seq[1]
    ELSE intersectBoxes(FoldBoxes(SubSeq(seq, 1, Len(seq) - 1)), seq[Len(seq)])

FoldInit ==
    /\ IdleDetector
    /\ pc = "fold" /\ video = 0 /\ src_w = 100 /\ src_h = 100 /\ detectorParams = Null
    /\ n = 0 /\ i = 0 /\ intersectionBox = Null /\ pickedFrameForAI = FALSE
    /\ frameBoxes = << >> /\ initialCrop = Null /\ reply = Null /\ refined = Null
    /\ res = Null
    /\ duration = Null /\ timestamps = << >>
    /\ cleanup = {} /\ created = {} /\ scheduled = {}
    /\ frames = 0 /\ firstPng = Null /\ enforcedTop = 0 /\ enforcedBottom = 0
    /\ call = Null
    /\ clock = 0 /\ requests = << >> /\ files = << >>
    /\ txt = << >> /\ jsonMatch = << >> /\ parsed = Null /\ stderr = << >>

\* intersectionBox = intersectionBox ? intersectBoxes(intersectionBox, box) : box
FoldFrame ==
    /\ pc = "fold" /\ i < MaxFoldLen
    /\ \E b \in ConsensusBoxes :
          /\ intersectionBox' = IF intersectionBox # Null
                                THEN intersectBoxes(intersectionBox, b)
                                ELSE b
          /\ frameBoxes' = Append(frameBoxes, b)
    /\ i' = i + 1
    /\ UNCHANGED <<detVars, pc, video, src_w, src_h, detectorParams, n,
                   pickedFrameForAI, initialCrop, reply, refined, res,
                   duration, timestamps, fileVars, hybridVars, call, pairVars,
                   textVars>>

FoldNext == FoldFrame

SpecFold == FoldInit /\ [][FoldNext]_vars

-----------------------------------------------------------------------------
(* Properties.                                                             *)

\* box c lies within box b
Within(c, b) ==
    /\ c.left >= b.left /\ c.top >= b.top
    /\ c.right <= b.right /\ c.bottom <= b.bottom

SameBounds(c, b) ==
    /\ c.left = b.left /\ c.top = b.top
    /\ c.right = b.right /\ c.bottom = b.bottom

\* the componentwise intersection of two boxes, degenerate or not
Meet(a, b) ==
    [left |-> Max2(a.left, b.left), top |-> Max2(a.top, b.top),
     right |-> Min2(a.right, b.right), bottom |-> Min2(a.bottom, b.bottom)]

\* wider and taller than the floor of intersectBoxes
Roomy(b) == b.right > b.left + 10 /\ b.bottom > b.top + 10

\* the componentwise intersection of all the boxes of a sequence
RECURSIVE MeetAll(_)
MeetAll(seq) ==
    IF Len(seq) = 1 THEN seq[1]
    ELSE Meet(MeetAll(SubSeq(seq, 1, Len(seq) - 1)), seq[Len(seq)])

\* the consensus the rule of section 4.5 prescribes for a sequence of boxes:
\* the first box, then at each step the intersection, or the box accumulated
\* so far when the intersection collapses
RECURSIVE Prescribed(_)
Prescribed(seq) ==
    IF Len(seq) = 1 THEN [left |-> seq[1].left, top |-> seq[1].top,
                          right |-> seq[1].right, bottom |-> seq[1].bottom]
    ELSE LET a == Prescribed(SubSeq(seq, 1, Len(seq) - 1))
             m == Meet(a, seq[Len(seq)])
         IN  IF Roomy(m) THEN m ELSE a

\* the step that took in the k-th analysed frame (k >= 2) collapsed
CollapsedAt(seq, k) == ~Roomy(Meet(Prescribed(SubSeq(seq, 1, k - 1)), seq[k]))

InLoop == pc = "loop" /\ frameBoxes # << >>

\* C1: whatever finite numbers the model returns, the rectangle that
\* refineWithGPT5Mini returns lies inside the safe region initialCrop (whose
\* sides are at least 10) and is at least 10 wide and 10 high; Scenario D of
\* the specification gives x = 0, y in [100, 1690] and a size inside the
\* region and at least 10.
RefinedInsideSafeRegion ==
    /\ (refined # Null /\ reply.kind = "json"
           /\ initialCrop.crop_w >= 10 /\ initialCrop.crop_h >= 10) =>
          /\ refined.crop_x >= initialCrop.x
          /\ refined.crop_y >= initialCrop.y
          /\ refined.crop_x + refined.crop_w <= initialCrop.x + initialCrop.crop_w
          /\ refined.crop_y + refined.crop_h <= initialCrop.y + initialCrop.crop_h
          /\ refined.crop_w >= 10
          /\ refined.crop_h >= 10
    /\ LET safe == [x |-> 0, y |-> 100, crop_w |-> 1080, crop_h |-> 1600]
           r == refineWithGPT5Mini(safe, [crop_x |-> Num(-50), crop_y |-> Num(5000),
                                          crop_w |-> Num(99999), crop_h |-> Num(1)])
       IN  /\ r.crop_x = 0
           /\ r.crop_y >= 100 /\ r.crop_y <= 1690
           /\ r.crop_w >= 10 /\ r.crop_x + r.crop_w <= 1080
           /\ r.crop_h >= 10 /\ r.crop_y + r.crop_h <= 1700

\* C1 witness: a reply far out of bounds on every side has been clamped
RefinedWildReply ==
    /\ refined # Null
    /\ reply.j = [crop_x |-> Num(5000), crop_y |-> Num(-50),
                  crop_w |-> Num(99999), crop_h |-> Num(1)]
    /\ refined.crop_x > initialCrop.x
    /\ refined.crop_h = 10

\* C2: when the refinement stage fails (the call rejects, the reply has no
\* {...} block, or JSON.parse throws) the request is answered 200 with
\* exactly boxToCrop of the consensus box and refined_by_ai = false.
FailedRefineFallsBack ==
    (pc = "done" /\ reply \in FailedReplies) =>
        /\ res.status = 200
        /\ res.x = boxToCrop(intersectionBox).x
        /\ res.y = boxToCrop(intersectionBox).y
        /\ res.crop_w = boxToCrop(intersectionBox).crop_w
        /\ res.crop_h = boxToCrop(intersectionBox).crop_h
        /\ res.refined_by_ai = FALSE

\* C2 witness: a request answered after a reply without a {...} block, its
\* consensus narrower than the frame
FailedRefineAnswered ==
    /\ pc = "done" /\ reply = [kind |-> "noJson"]
    /\ res.status = 200
    /\ res.y > 0

\* the handler has answered a request whose external-model stage failed
ExternalStageFailed == pc = "done" /\ reply \in FailedReplies

\* C3: a failure of the external-model stage (the call rejects, or the reply
\* holds no parseable {...} object) is never fatal: the request is answered
\* with a crop rectangle, not with an error status.  As stated; the
\* single-frame handler of server.js answers 500.
ExternalFailureNeverFatal ==
    ExternalStageFailed =>
        /\ res.status = 200
        /\ {"x", "y", "crop_w", "crop_h"} \subseteq DOMAIN res

\* C4 as stated: the consensus box lies within the box of every frame that
\* contributed to it.
ConsensusWithinEveryFrame ==
    InLoop => \A k \in 1..Len(frameBoxes) : Within(intersectionBox, frameBoxes[k])

\* C4 as amended: the consensus box lies within the box of the first frame
\* analysed and within the box of every later frame whose intersection step
\* did not collapse.
ConsensusWithinUncollapsedFrames ==
    InLoop =>
        /\ Within(intersectionBox, frameBoxes[1])
        /\ \A k \in 2..Len(frameBoxes) :
              ~CollapsedAt(frameBoxes, k) => Within(intersectionBox, frameBoxes[k])

\* C4 witness: three frames analysed, the second narrowed the consensus and
\* the third collapsed, so that the consensus is not within the third's box
ConsensusOutsideCollapsedFrame ==
    /\ InLoop /\ Len(frameBoxes) = 3
    /\ ~CollapsedAt(frameBoxes, 2) /\ ~SameBounds(intersectionBox, frameBoxes[1])
    /\ CollapsedAt(frameBoxes, 3) /\ ~Within(intersectionBox, frameBoxes[3])

\* C5: when the componentwise intersection of all the frames' boxes has
\* right > left + 10 and bottom > top + 10, the consensus is that
\* intersection and lies within every frame's box; Scenario C of the
\* specification yields, after boxToCrop, {x: 0, y: 110, crop_w: 1080,
\* crop_h: 1680}.
ConsensusIsIntersection ==
    /\ (InLoop /\ Roomy(MeetAll(frameBoxes))) =>
          /\ SameBounds(intersectionBox, MeetAll(frameBoxes))
          /\ \A k \in 1..Len(frameBoxes) : Within(intersectionBox, frameBoxes[k])
    /\ LET Frame(x, y, w, h) ==
               [left |-> x, top |-> y, right |-> x + w - 1, bottom |-> y + h - 1,
                width |-> 1080, height |-> 1920]
           f1 == Frame(0, 100, 1080, 1700)
           f2 == Frame(0, 90, 1080, 1720)
           f3 == Frame(0, 110, 1080, 1680)
       IN  boxToCrop(intersectBoxes(intersectBoxes(f1, f2), f3))
             = [x |-> 0, y |-> 110, crop_w |-> 1080, crop_h |-> 1680]

\* C5 witness: three frames with three different boxes, none of them the
\* intersection, and the intersection is roomy
ConsensusOfThreeFrames ==
    /\ InLoop /\ Len(frameBoxes) = 3
    /\ Roomy(MeetAll(frameBoxes))
    /\ \A k \in 1..3 : ~SameBounds(intersectionBox, frameBoxes[k])

\* C6: each step leaves the accumulated box unchanged when the intersection
\* collapses and takes the exact intersection otherwise; hence the consensus
\* keeps right > left + 10 and bottom > top + 10 whenever the first frame's
\* box has them.
ConsensusNeverCollapses ==
    InLoop =>
        /\ SameBounds(intersectionBox, Prescribed(frameBoxes))
        /\ Roomy(frameBoxes[1]) => Roomy(intersectionBox)

\* C6 witness: an outlier frame whose box misses the consensus altogether
\* has been taken in, and the consensus is still roomy
ConsensusSurvivesOutlier ==
    /\ InLoop /\ Len(frameBoxes) >= 2
    /\ CollapsedAt(frameBoxes, Len(frameBoxes))
    /\ Meet(intersectionBox, frameBoxes[Len(frameBoxes)]).bottom
          < Meet(intersectionBox, frameBoxes[Len(frameBoxes)]).top + 10
    /\ Roomy(frameBoxes[1]) /\ Roomy(intersectionBox)

\* C7 as stated: after a degenerate intersection step the consensus is the
\* box of the first frame analysed (and is not empty).
DegenerateStepYieldsFirstBox ==
    (InLoop /\ Len(frameBoxes) >= 2 /\ CollapsedAt(frameBoxes, Len(frameBoxes))) =>
        /\ SameBounds(intersectionBox, frameBoxes[1])
        /\ intersectionBox.left <= intersectionBox.right
        /\ intersectionBox.top <= intersectionBox.bottom

\* C7 as amended: after a degenerate intersection step the consensus is the
\* box accumulated before that step, which is the first frame's box only if
\* no earlier step narrowed it, and is never an empty rectangle.
DegenerateStepKeepsAccumulated ==
    (InLoop /\ Len(frameBoxes) >= 2 /\ CollapsedAt(frameBoxes, Len(frameBoxes))) =>
        /\ SameBounds(intersectionBox,
                      Prescribed(SubSeq(frameBoxes, 1, Len(frameBoxes) - 1)))
        /\ (\A k \in 2..(Len(frameBoxes) - 1) : CollapsedAt(frameBoxes, k))
              => SameBounds(intersectionBox, frameBoxes[1])
        /\ intersectionBox.left <= intersectionBox.right
        /\ intersectionBox.top <= intersectionBox.bottom

\* C7 witness: the third step is degenerate after the second narrowed the
\* first frame's box
DegenerateStepAfterNarrowing ==
    /\ InLoop /\ Len(frameBoxes) = 3
    /\ ~CollapsedAt(frameBoxes, 2) /\ ~SameBounds(Prescribed(SubSeq(frameBoxes, 1, 2)), frameBoxes[1])
    /\ CollapsedAt(frameBoxes, 3)

\* C8 as stated: the returned box is at least max(configured min_w, 1) wide
\* and at least max(configured min_h, 1) high.
BoxAtLeastConfiguredMinimum ==
    box # Null =>
        LET w == box.right - box.left + 1
            h == box.bottom - box.top + 1
        IN  /\ w >= 1 /\ w * opts.min_w[2] >= opts.min_w[1]
            /\ h >= 1 /\ h * opts.min_h[2] >= opts.min_h[1]

\* C8 as amended: the returned box is at least min(frame width,
\* max(floor(configured min_w), 1)) wide and at least min(frame height,
\* max(floor(configured min_h), 1)) high.
BoxAtLeastMinimumOrFrame ==
    box # Null =>
        /\ box.right - box.left + 1
              >= Min2(png.width, Max2(MathFloor(opts.min_w), 1))
        /\ box.bottom - box.top + 1
              >= Min2(png.height, Max2(MathFloor(opts.min_h), 1))

\* C8 witness: a frame lower than the configured minimum height, for which
\* the box is the whole height, and narrower boxes kept on the other axis
BoxOfFrameBelowMinimum ==
    /\ box # Null
    /\ png.height < MathFloor(opts.min_h)
    /\ box.bottom - box.top + 1 = png.height
    /\ box.right - box.left + 1 < png.width

\* C9: the content box satisfies 0 <= left <= right <= width - 1 and
\* 0 <= top <= bottom <= height - 1, and the rectangle boxToCrop derives
\* from it satisfies x >= 0, y >= 0, x + crop_w <= width, y + crop_h <= height.
BoxAndCropWithinFrame ==
    /\ box # Null =>
          /\ 0 <= box.left /\ box.left <= box.right /\ box.right <= png.width - 1
          /\ 0 <= box.top /\ box.top <= box.bottom /\ box.bottom <= png.height - 1
    /\ crop # Null =>
          /\ crop.x >= 0 /\ crop.y >= 0
          /\ crop.x + crop.crop_w <= png.width
          /\ crop.y + crop.crop_h <= png.height

\* the indices at which a run of at least c content lines begins
RunStarts(arr, c) ==
    {s \in 0..(ArrLen(arr) - c) : \A k \in s..(s + c - 1) : arr[k]}

\* the smallest integer not below the rational v
Ceiling(v) == -((-v[1]) \div v[2])

\* C10 as stated: before the padding, top / left is the smallest index at
\* which a run of at least consecutive content rows / columns begins and
\* bottom / right the largest index at which such a run ends, consecutive
\* being the configured run length; without such a run they are 0 and
\* length - 1.
ScanFindsConfiguredRuns ==
    scan # Null =>
        LET c == Max2(1, Ceiling(opts.consecutive))
            rows == RunStarts(rowIsContent, c)
            cols == RunStarts(colIsContent, c)
        IN  /\ scan.top = IF rows = {} THEN 0 ELSE Least(rows)
            /\ scan.bottom = IF rows = {} THEN png.height - 1 ELSE Greatest(rows) + c - 1
            /\ scan.left = IF cols = {} THEN 0 ELSE Least(cols)
            /\ scan.right = IF cols = {} THEN png.width - 1 ELSE Greatest(cols) + c - 1

\* C10 as amended: the same with consecutive the run length the detector
\* derives from the configured one, floored and clamped to 2..30 (the
\* params_used.consecutive it reports): a run shorter than that never sets
\* a boundary, even when it is as long as the configured run length.
ScanFindsRuns ==
    scan # Null =>
        LET c == box.params_used.consecutive
            rows == RunStarts(rowIsContent, c)
            cols == RunStarts(colIsContent, c)
        IN  /\ c = Max2(2, Min2(30, MathFloor(opts.consecutive)))
            /\ scan.top = IF rows = {} THEN 0 ELSE Least(rows)
            /\ scan.bottom = IF rows = {} THEN png.height - 1 ELSE Greatest(rows) + c - 1
            /\ scan.left = IF cols = {} THEN 0 ELSE Least(cols)
            /\ scan.right = IF cols = {} THEN png.width - 1 ELSE Greatest(cols) + c - 1

\* C10 witness: with a configured run length of 1, a single content row
\* lies above the top boundary, which a longer run below it has set
ScanSkipsRunOfConfiguredLength ==
    /\ scan # Null
    /\ opts.consecutive = Num(1)
    /\ \E k \in 0..(scan.top - 1) : rowIsContent[k]
    /\ rowIsContent[scan.top] /\ scan.top < scan.bottom

\* C11: detectCutsFromPng is monotone in darkThreshold: for the same frame
\* and the same minBandRatio and maxBandRatio, a darkThreshold at least as
\* large gives a topCut and a bottomCut at least as large, the discard of
\* short bands included.
CutsMonotoneInThreshold ==
    (cutsHigher # Null /\ opts.darkThreshold[1] <= higher[1]) =>
        /\ cuts.topCut <= cutsHigher.topCut
        /\ cuts.bottomCut <= cutsHigher.bottomCut

\* C11 witness: the lower threshold finds a top band too short to keep,
\* the higher one a longer band that is kept
CutsGrowAcrossDiscard ==
    /\ cutsHigher # Null
    /\ walked.topCut > 0 /\ cuts.topCut = 0
    /\ cutsHigher.topCut > walked.topCut

\* C12: topCut and bottomCut never exceed floor(maxBandRatio * height), an
\* all-dark frame included, and neither loop walks past that many rows.
CutsWithinMaxBand ==
    cuts # Null =>
        LET maxBand == FloorOfRatio(opts.maxBandRatio, png.height)
        IN  /\ cuts.topCut <= maxBand /\ cuts.bottomCut <= maxBand
            /\ walked.topCut <= maxBand /\ walked.bottomCut <= maxBand

\* C12 witness: an all-dark frame higher than maxBand, on which both loops
\* stop at maxBand
AllDarkFrameCut ==
    /\ cuts # Null
    /\ \A y \in 0..(png.height - 1) : RowIsDark(png, y, opts.darkThreshold)
    /\ walked.topCut = FloorOfRatio(opts.maxBandRatio, png.height)
    /\ walked.topCut > 0 /\ walked.topCut < png.height
    /\ walked.bottomCut = walked.topCut

\* A frame of mid-gray rows between a black band of top rows at the top and
\* one of bottom rows at the bottom
BandedFrame(w, h, top, bottom) ==
    MkPng(w, h, LAMBDA x, y : IF y < top \/ y >= h - bottom THEN Black
                              ELSE <<128, 128, 128>>)

DefaultCutOpts ==
    [darkThreshold |-> Num(35), minBandRatio |-> <<3, 100>>, maxBandRatio |-> <<35, 100>>]

\* the two examples of the specification, on frames 1920 rows high (the
\* rows are uniform, so four columns stand for the 1080)
CutsOfBands120 == detectCutsFromPng(BandedFrame(4, 1920, 120, 120), DefaultCutOpts)
CutsOfBand40 == detectCutsFromPng(BandedFrame(4, 1920, 40, 0), DefaultCutOpts)

\* what the rule of section 4.2 prescribes for a band of k dark rows
PrescribedCut(k, minBand, maxBand) ==
    IF Min2(k, maxBand) >= minBand THEN Min2(k, maxBand) ELSE 0

\* C13: when the first k rows are dark and row k is not, topCut is
\* min(k, maxBand) if that is at least minBand = floor(minBandRatio * height)
\* and 0 otherwise; the same, independently, for bottomCut from the last
\* row.  With the defaults, black bands of 120 rows on a mid-gray frame 1920
\* high give 120 and 120, and a black top band of 40 rows gives 0.
CutIsDarkBandOrNothing ==
    /\ cuts # Null =>
          LET minBand == FloorOfRatio(opts.minBandRatio, png.height)
              maxBand == FloorOfRatio(opts.maxBandRatio, png.height)
          IN  \A k \in 0..(png.height - 1) :
                 /\ ((\A j \in 0..(k - 1) : RowIsDark(png, j, opts.darkThreshold))
                        /\ ~RowIsDark(png, k, opts.darkThreshold))
                       => cuts.topCut = PrescribedCut(k, minBand, maxBand)
                 /\ ((\A j \in 0..(k - 1) :
                          RowIsDark(png, png.height - 1 - j, opts.darkThreshold))
                        /\ ~RowIsDark(png, png.height - 1 - k, opts.darkThreshold))
                       => cuts.bottomCut = PrescribedCut(k, minBand, maxBand)
    /\ CutsOfBands120.topCut = 120 /\ CutsOfBands120.bottomCut = 120
    /\ CutsOfBand40.topCut = 0 /\ CutsOfBand40.bottomCut = 0

\* C13 witness: a dark top band between minBand and maxBand is kept while
\* a shorter dark bottom band of the same frame is discarded
TopBandKeptBottomDiscarded ==
    /\ cuts # Null
    /\ cuts.topCut > 0 /\ cuts.topCut < FloorOfRatio(opts.maxBandRatio, png.height)
    /\ ~RowIsDark(png, cuts.topCut, opts.darkThreshold)
    /\ walked.bottomCut > 0 /\ cuts.bottomCut = 0

\* row y of the frame qualifies as a caption row on a dark strip
Qualifies(y) == RowOk(png, opts, y)

\* the number of rows a scan looks at: scanH of them, and no row whose index
\* from the edge exceeds maxPx
RowsScanned(scanH, maxPx) == Max2(0, Min2(scanH, MathFloor(maxPx) + 1))

\* Among the len rows nearest an edge, Q(k) telling whether the k-th row
\* from the edge qualifies: the number of rows from the edge to the end of
\* the first run of at least m qualifying rows (of the run that starts at
\* the edge when m <= 0), and 0 without such a run.
FirstLongRunEnd(Q(_), len, m) ==
    LET RunStart(e) == Greatest({-1} \cup {j \in 0..(e - 1) : ~Q(j)}) + 1
        ends == {e \in 1..len :
                    /\ Q(e - 1) /\ (e = len \/ ~Q(e))
                    /\ (e - RunStart(e)) * m[2] >= m[1]
                    /\ (m[1] <= 0 => RunStart(e) = 0)}
    IN  IF ends = {} THEN 0 ELSE Least(ends)

\* C14 as stated: a top overlay is reported only for a run of at least
\* minBandPx qualifying rows that starts at row 0, top_overlay_end being one
\* past its last row; and a bottom overlay only for such a run that starts
\* at the last row.
OverlayRunStartsAtEdge ==
    bands # Null =>
        /\ bands.top_overlay_end > 0 =>
              /\ \A y \in 0..(bands.top_overlay_end - 1) : Qualifies(y)
              /\ RunReaches(bands.top_overlay_end, MinBandPx(png, opts))
        /\ bands.bottom_overlay_start < png.height =>
              /\ \A y \in bands.bottom_overlay_start..(png.height - 1) : Qualifies(y)
              /\ RunReaches(png.height - bands.bottom_overlay_start, MinBandPx(png, opts))

\* C14 as amended: within the rows scanned, the first run of at least
\* minBandPx consecutive qualifying rows counted from the edge is reported,
\* wherever it starts (shorter runs nearer the edge are skipped; with
\* minBandPx <= 0 only a run that starts at the edge counts);
\* top_overlay_end is one past its last scanned row and bottom_overlay_start
\* its topmost scanned row; without such a run they are 0 and height.
OverlayIsFirstLongRun ==
    bands # Null =>
        LET FromTop(k) == Qualifies(k)
            FromBottom(k) == Qualifies(png.height - 1 - k)
            m == MinBandPx(png, opts)
        IN  /\ bands.top_overlay_end =
                  FirstLongRunEnd(FromTop,
                      RowsScanned(TopScanH(png, opts), MaxTopPx(png, opts)), m)
            /\ bands.bottom_overlay_start =
                  png.height - FirstLongRunEnd(FromBottom,
                      RowsScanned(BotScanH(png, opts), MaxBottomPx(png, opts)), m)

\* C14 witness: a top overlay is reported although row 0 does not qualify,
\* a run too short to count lying between row 0 and the reported one
OverlayAwayFromEdge ==
    /\ bands # Null
    /\ bands.top_overlay_end > 0 /\ ~Qualifies(0)
    /\ \E y \in 1..(bands.top_overlay_end - 1) :
          Qualifies(y) /\ ~Qualifies(y + 1) /\ y + 1 < bands.top_overlay_end

\* C15: with the default maxTopPx and maxBottomPx, whatever the scan ratios,
\* top_overlay_end <= floor(0.45 * height) and
\* height - bottom_overlay_start <= floor(0.30 * height).
OverlaysWithinHardCaps ==
    (bands # Null /\ opts.maxTopPx = Absent /\ opts.maxBottomPx = Absent) =>
        /\ bands.top_overlay_end <= FloorOfRatio(<<45, 100>>, png.height)
        /\ png.height - bands.bottom_overlay_start <= FloorOfRatio(<<30, 100>>, png.height)

\* C17: in the part_004 /detect-ai handler, whatever the duration (> 0) and
\* num_frames, between 1 and 9 timestamps are generated, they are
\* non-decreasing, and each t has 0.12*duration <= t <= 0.9*duration, hence
\* 0 <= t < duration.
TimestampsWithinVideo ==
    duration # Null =>
        /\ duration[1] > 0
        /\ Len(timestamps) \in 1..9
        /\ \A k \in 1..Len(timestamps) :
              /\ RatLeq(RatMul(duration, <<12, 100>>), timestamps[k])
              /\ RatLeq(timestamps[k], RatMul(duration, <<9, 10>>))
              /\ RatLeq(Num(0), timestamps[k])
              /\ ~RatLeq(duration, timestamps[k])
              /\ k > 1 => RatLeq(timestamps[k - 1], timestamps[k])

\* nine timestamps of a video shorter than the 0.2 s floor, and the request
\* answered
TimestampsOfVeryShortVideo ==
    /\ pc = "done" /\ duration # Null
    /\ ~RatLeq(<<1, 5>>, duration)
    /\ Len(timestamps) = 9

\* C18: in the part_004 /detect-ai handler, whenever the request has been
\* answered (success, 400 for unreadable dimensions, 500 when no frame could
\* be analysed, 500 from the catch block), every temporary file created for
\* it so far (the uploaded input and each frame PNG) has been scheduled for
\* deletion.
AnsweredRequestLeavesNoFile ==
    pc = "done" => created \subseteq scheduled

\* C16: in the /detect-ai revisions that sample frames, a frame-extraction
\* failure at one timestamp does not fail the request (the timestamp is
\* skipped and the remaining frames are used): a request that failed once
\* sampling had begun and before the external model was consulted has
\* extracted no frame at all.
FrameFailureFatalOnlyWithoutFrames ==
    (pc = "done" /\ res.status = 500 /\ duration # Null /\ reply = Null)
        => frames = 0

\* C19: the external-model call made by the refinement stage carries an
\* explicit timeout (at whose expiry an unanswered call is abandoned and
\* the request answered with the consensus rectangle): while the call is
\* in flight, "timeout" is among the options it was issued with.
RefineCallCarriesTimeout ==
    pc = "refine" => "timeout" \in call.options

\* the request has a frame path and has not been answered
InFlight(r) == requests[r].pc \in {"ffmpeg", "extracted"}

\* C20: concurrent requests are independent in their temporary files: no two
\* in-flight requests have the same frame PNG path, even when both read the
\* clock in the same millisecond; a request analyses none but its own
\* frame, and a request whose frame was written does not fail.
RequestsOwnTheirFrames ==
    \A r \in Requests :
        /\ \A o \in Requests \ {r} :
              InFlight(r) /\ InFlight(o) => requests[r].framePath # requests[o].framePath
        /\ requests[r].png # "none" => requests[r].png = requests[r].video
        /\ requests[r].pc = "done" /\ requests[r].written => requests[r].res.status = 200

\* the first closing brace after the first opening brace of t, 0 if none
FirstClose(t) ==
    LET opens == {k \in 1..Len(t) : t[k] = "{"}
        closes == {k \in 1..Len(t) : t[k] = "}" /\ k > Least(opens)}
    IN  IF opens = {} \/ closes = {} THEN 0 ELSE Least(closes)

\* the first {...} block of t, << >> if none
FirstBlock(t) ==
    IF FirstClose(t) = 0 THEN << >>
    ELSE SubSeq(t, Least({k \in 1..Len(t) : t[k] = "{"}), FirstClose(t))

\* C21: the reply parser extracts the first {...} block of the reply:
\* whenever that block is a valid JSON object, whatever prose, closing
\* braces or further blocks follow it, it is what is parsed and the stage
\* succeeds with its values.
FirstObjectIsParsed ==
    (pc = "parsed" /\ IsJsonObject(FirstBlock(txt))) =>
        parsed = [kind |-> "json", members |-> Len(FirstBlock(txt)) - 2]

\* C22: the rectangle the dark-band /detect handler returns satisfies the
\* Rectangle invariants for every frame, every non-negative safe_margin and
\* all band ratios: x >= 0, y >= 0, crop_h >= 10, x + crop_w <= src_w and
\* y + crop_h <= src_h.
DetectRectangleWithinSource ==
    \A r \in Requests :
        (requests[r].pc = "done" /\ requests[r].res.status = 200) =>
            LET a == requests[r].res
            IN  /\ a.x >= 0 /\ a.y >= 0 /\ a.crop_h >= 10
                /\ a.x + a.crop_w <= a.src_w
                /\ a.y + a.crop_h <= a.src_h

\* C23: in the /detect-ai revision with hard enforcement (part_001), whatever
\* the model put out, the returned rectangle respects the heuristic bounds
\* reported with it: y >= heuristic_enforced_top and
\* y + crop_h <= src_h - heuristic_enforced_bottom.
CropRespectsEnforcedBounds ==
    (pc = "done" /\ res.status = 200) =>
        /\ res.y >= res.heuristic_enforced_top
        /\ res.y + res.crop_h <= res.src_h - res.heuristic_enforced_bottom

\* the crop_w the model suggested, clamped to [10, src_w]
SuggestedWidth == clampIntFinite(reply.j.crop_w, 10, src_w)

\* C24: in the part_001 /detect-ai handler, if the suggested crop_w (clamped
\* to [10, src_w]) is below 85% of src_w the response has x = 0 and
\* crop_w = src_w; so for every model output, numeric or not, and
\* src_w >= 10, crop_w >= 0.85 * src_w and x + crop_w <= src_w.
NarrowCropForcedToFullWidth ==
    (pc = "done" /\ res.status = 200 /\ src_w >= 10) =>
        /\ SuggestedWidth * 100 < src_w * 85 => res.x = 0 /\ res.crop_w = src_w
        /\ res.crop_w * 100 >= src_w * 85
        /\ res.x + res.crop_w <= src_w

\* a model output with a number for crop_x and none for crop_w was answered
\* with the full width
NonNumericWidthAnswered ==
    /\ pc = "done" /\ res.status = 200
    /\ reply.kind = "oddJson" /\ IsNaN(reply.j.crop_w) /\ ~IsNaN(reply.j.crop_x)
    /\ res.x = 0 /\ res.crop_w = src_w

\* C25: in the server.js /detect-ai handler, for every numeric model output
\* the returned crop stays within the source: x >= 0, y >= 0, crop_w >= 10,
\* crop_h >= 10, x + crop_w <= src_w and y + crop_h <= src_h.
ServerCropWithinSource ==
    (pc = "done" /\ res.status = 200) =>
        /\ res.x >= 0 /\ res.y >= 0
        /\ res.crop_w >= 10 /\ res.crop_h >= 10
        /\ res.x + res.crop_w <= res.src_w
        /\ res.y + res.crop_h <= res.src_h

\* C26: in the part_004 /detect-ai handler, when the reply parses as an
\* object whose crop_x, crop_y, crop_w or crop_h is missing or no number, the
\* response still carries finite integers x, y, crop_w, crop_h inside the
\* consensus safe region; a non-number never reaches the response.
OddReplyAnsweredInsideSafeRegion ==
    (pc = "done" /\ reply # Null /\ reply.kind = "oddJson") =>
        /\ \A f \in {"x", "y", "crop_w", "crop_h"} : ~IsNaN(res[f]) /\ res[f][2] = 1
        /\ res.x[1] >= initialCrop.x
        /\ res.y[1] >= initialCrop.y
        /\ res.x[1] + res.crop_w[1] <= initialCrop.x + initialCrop.crop_w
        /\ res.y[1] + res.crop_h[1] <= initialCrop.y + initialCrop.crop_h

\* C27: in /detect of part_003, the rectangle answered after the safety
\* clamp lies within the probed video: x >= 0, y >= 0, x + crop_w <=
\* source_w and y + crop_h <= source_h
CropdetectRectangleWithinSource ==
    (pc = "done" /\ res.status = 200) =>
        /\ res.x >= 0 /\ res.y >= 0
        /\ res.x + res.crop_w <= res.source_w
        /\ res.y + res.crop_h <= res.source_h

\* C28: in the part_004 /detect-ai response, frames_analyzed is the number
\* of frames that were extracted and analysed (those that contributed a box
\* to the consensus), whatever frames failed
FramesAnalyzedCountsContributors ==
    (pc = "done" /\ res.status = 200) =>
        res.frames_analyzed = Cardinality(created \ {InputPath})

\* the orders in which k frames can be taken
Orders(k) == {p \in [1..k -> 1..k] : \A a, b \in 1..k : p[a] = p[b] => a = b}

Reordered(seq, p) == [k \in 1..Len(seq) |-> seq[p[k]]]

Folded == pc = "fold" /\ frameBoxes # << >>

\* C29 as stated: folding the same boxes in any order gives the consensus
\* box the loop computed, collapsing intersections included.
ConsensusIgnoresOrder ==
    Folded => \A p \in Orders(Len(frameBoxes)) :
                  FoldBoxes(Reordered(frameBoxes, p)) = intersectionBox

\* C29 as amended: folding the same boxes in any order gives the consensus
\* box the loop computed whenever no intersection collapses, that is, the
\* boxes share a region more than 10 pixels wide and more than 10 high.
ConsensusIgnoresOrderUnlessCollapsed ==
    (Folded /\ Roomy(MeetAll(frameBoxes))) =>
        \A p \in Orders(Len(frameBoxes)) :
            FoldBoxes(Reordered(frameBoxes, p)) = intersectionBox

\* C29 witness: three different boxes, none of them the consensus, folded
\* without a collapse
ThreeBoxesFoldedWithoutCollapse ==
    /\ Folded /\ Len(frameBoxes) = 3
    /\ Roomy(MeetAll(frameBoxes))
    /\ \A k \in 1..3 : ~SameBounds(intersectionBox, frameBoxes[k])
    /\ \A a, b \in 1..3 : a # b => frameBoxes[a] # frameBoxes[b]

=============================================================================
